---- MODULE Spec2Model ----
(***************************************************************************)
(* claude-hub: account selector (src/usage/selector.ts), session registry  *)
(* (state.json), PTY supervisor (src/pty) and the failover controller      *)
(* (launchClaudeWithPty in the CLI entry point).                           *)
(*                                                                         *)
(* Two specifications share the module:                                    *)
(*   SpecSelect  one call of selectBestAccount on inputs drawn from        *)
(*               bounded sets (the selector is a pure function of the      *)
(*               snapshots, the excluded account, the registry file, the   *)
(*               live pids and the clock);                                 *)
(*   Spec        one hub process in PTY mode: main, the supervisors it     *)
(*               launches, their output/exit events, the F10 overlay and   *)
(*               the two failover paths.                                   *)
(*                                                                         *)
(* Time is counted in minutes.  Scores are kept in fixed point, ScoreUnit  *)
(* units per score point, so that 0.6, 0.4, 0.5/hour and 2.5/day are       *)
(* exact on minute-valued reset instants.                                  *)
(***************************************************************************)
EXTENDS Integers, Sequences, FiniteSets, TLC

VARIABLES
  \* ---- one selector call (SpecSelect)
  usages,          \* the APIUsageData[] argument
  excludeAccount,  \* the excludeAccount argument, NoAccount when omitted
  selection,       \* the returned AccountSelection, Null, or NotCalled
  \* ---- shared environment
  stateFile,       \* contents of ~/.claude-hub/state.json (SelectorState)
  alive,           \* pids for which process.kill(pid, 0) succeeds
  now,             \* the clock, in minutes
  \* ---- one hub process (Spec)
  args,            \* parsed command line (CliArgs)
  proc,            \* "init" | "running" | "exited"
  exitCode,        \* argument of process.exit, NoCode before it
  exitBy,          \* the closure whose onExit called process.exit, 0 if none
  sup,             \* the launchClaudeWithPty closures, in launch order
  term,            \* process.stdin/stdout: raw mode, flow, listeners
  lastOps,         \* effects of the last handler, in the order the code runs them
  \* ---- hub processes sharing the registry file (SpecRegistry)
  reg,             \* per process: its position in a registry operation
  \* ---- stdin side of one PTY wrapper (SpecInput)
  wrap,            \* createPtyWrapper's input state, NoWrapper elsewhere
  \* ---- one call of getScoreBreakdown (SpecScore)
  breakdown,       \* rows: the returned ScoreBreakdown[]; or NotCalled
  \* ---- the usage cache of api.ts (SpecCache)
  cache,           \* cachedUsageData (Null or a list), lastFetchTime; calls, fetch rounds
  \* ---- the conversation store of one account (SpecStore)
  store,           \* the project directory's files, NoStore when it is missing
  found            \* what findActiveSessionId returned, or NotCalled

selVars == <<usages, excludeAccount, selection>>
envVars == <<stateFile, alive, now>>
auxVars == <<breakdown, cache, store, found>>
ctlVars == <<args, proc, exitCode, exitBy, sup, term, lastOps, wrap, auxVars>>
vars == <<usages, excludeAccount, selection, stateFile, alive, now,
          args, proc, exitCode, exitBy, sup, term, lastOps, reg, wrap,
          breakdown, cache, store, found>>

(***************************************************************************)
(* Bounds of the model.                                                    *)
(***************************************************************************)
MaxSnapshots == 3
\* closures launched by one process
MaxLaunches == 3
\* input events of one process: output chunks its children write and keys
\* it reads from the terminal and handles itself
MaxEvents == 3

(***************************************************************************)
(* Accounts and the input domain of usage snapshots.                       *)
(***************************************************************************)
Accounts == {"p", "q", "r"}
NoAccount == "none"

\* account names in the order of Object.entries(config.accounts)
ConfigOrder == <<"p", "q", "r">>

MinutesPerHour == 60
HoursPerDay == 24

H(h, m) == h * MinutesPerHour + m
D(d, h) == (d * HoursPerDay + h) * MinutesPerHour

\* what makeErrorResult builds: 100% remaining, reset instants = fetch time
ErrorShape(t) ==
  [error |-> TRUE, fiveHourRemaining |-> 100, sevenDayRemaining |-> 100,
   fiveHourResetsAt |-> t, sevenDayResetsAt |-> t]

OkShape(s, w, sr, wr) ==
  [error |-> FALSE, fiveHourRemaining |-> s, sevenDayRemaining |-> w,
   fiveHourResetsAt |-> sr, sevenDayResetsAt |-> wr]

\* the instant at which the snapshots were fetched
FetchTime == H(0, 0)

ShapeP == OkShape(88, 79, FetchTime + H(3, 20), FetchTime + D(6, 12))
ShapeQ == OkShape(61, 57, FetchTime + H(3, 20), FetchTime + D(3, 13))
\* 69.4 base: level with ShapeP once ShapeP carries the active-session penalty
ShapeX == OkShape(61, 82, FetchTime + H(3, 20), FetchTime + D(6, 12))
ShapeExhaustedSoon == OkShape(0, 79, FetchTime + H(0, 30), FetchTime + D(6, 12))
ShapeExhaustedLate == OkShape(0, 57, FetchTime + H(3, 0), FetchTime + D(3, 13))

Shapes == {ErrorShape(FetchTime), ShapeP, ShapeQ, ShapeX,
           ShapeExhaustedSoon, ShapeExhaustedLate}

Usage(name, shape) ==
  [accountName |-> name, error |-> shape.error,
   fiveHourRemaining |-> shape.fiveHourRemaining,
   sevenDayRemaining |-> shape.sevenDayRemaining,
   fiveHourResetsAt |-> shape.fiveHourResetsAt,
   sevenDayResetsAt |-> shape.sevenDayResetsAt]

Range(s) == {s[i] : i \in DOMAIN s}

Injective(s) == \A i, j \in DOMAIN s : i # j => s[i] # s[j]

\* lists of at most MaxSnapshots snapshots, one per account name, in any order
NameLists ==
  UNION {{s \in [1..n -> Accounts] : Injective(s)} : n \in 0..MaxSnapshots}

UsageLists ==
  UNION {{[i \in DOMAIN names |-> Usage(names[i], shapes[i])] :
            shapes \in [DOMAIN names -> Shapes]} : names \in NameLists}

(***************************************************************************)
(* Registry file (SelectorState) and process liveness.                     *)
(***************************************************************************)
MyPid == 1
OtherPid == 2
DeadPid == 3

NoLastUsed == "null"
NoTime == 0 - 1

Session(account, pid, startedAt) ==
  [account |-> account, pid |-> pid, startedAt |-> startedAt]

\* loadState's default when the file is missing or unreadable
DefaultState ==
  [lastUsedAccount |-> NoLastUsed, lastUsedAt |-> NoTime,
   activeSessions |-> <<>>]

\* what the file system gives loadState instead of a parsed object
FileFaults == {"missing", "unreadable", "unparseable"}

IsFault(file) == "fault" \in DOMAIN file

\* a file that parses to an object without activeSessions
Fieldless == [lastUsedAccount |-> NoLastUsed, lastUsedAt |-> NoTime]

\* state.activeSessions is there to be filtered
HasSessions(state) == "activeSessions" \in DOMAIN state

\* mutant of isProcessRunning: every probe succeeds
isProcessRunning_always(pid) == TRUE

isProcessRunning(pid) == pid \in alive

\* mutant of cleanStaleSessions: only the first stale entry is removed
cleanStaleSessions_firstOnly(state) ==
  LET stale == {k \in DOMAIN state.activeSessions :
                  ~isProcessRunning(state.activeSessions[k].pid)}
  IN  IF stale = {} THEN state
      ELSE LET first == CHOOSE k \in stale : \A j \in stale : k <= j
           IN  [state EXCEPT !.activeSessions =
                  SubSeq(@, 1, first - 1) \o SubSeq(@, first + 1, Len(@))]

cleanStaleSessions(state) ==
  [state EXCEPT !.activeSessions =
     SelectSeq(@, LAMBDA session : isProcessRunning(session.pid))]

getActiveAccounts(state) ==
  {state.activeSessions[i].account : i \in DOMAIN state.activeSessions}

\* the parsed file as it is, the default when it is missing, cannot be read
\* or does not parse
loadState == IF IsFault(stateFile) THEN DefaultState ELSE stateFile

(***************************************************************************)
(* Scoring.  One score point is ScoreUnit fixed-point units.               *)
(***************************************************************************)
ScoreUnit == 2880

\* WEIGHT_SESSION = 0.6, WEIGHT_WEEKLY = 0.4, in tenths
WEIGHT_SESSION_TENTHS == 6
WEIGHT_WEEKLY_TENTHS == 4
PENALTY_ACTIVE_SESSION == 15
PENALTY_LAST_USED == 5
\* BONUS_PER_HOUR_CLOSER_SESSION_RESET = 0.5, in halves
BONUS_PER_HOUR_CLOSER_SESSION_RESET_HALVES == 1
MAX_SESSION_RESET_HOURS_FOR_BONUS == 24
\* BONUS_PER_DAY_CLOSER_WEEKLY_RESET = 2.5, in halves
BONUS_PER_DAY_CLOSER_WEEKLY_RESET_HALVES == 5
MAX_WEEKLY_RESET_DAYS_FOR_BONUS == 7

Max(a, b) == IF a >= b THEN a ELSE b
Min(a, b) == IF a <= b THEN a ELSE b

\* mutant of hoursUntil: a passed instant counts as negative time
hoursUntil_signed(date) == date - now

\* hoursUntil, in minutes: Math.max(0, date - now)
hoursUntil(date) == Max(0, date - now)

\* daysUntil is hoursUntil / 24: the same minutes, read against day-sized caps
daysUntil(date) == hoursUntil(date)

calculateBaseScore(usage) ==
  (usage.fiveHourRemaining * WEIGHT_SESSION_TENTHS
     + usage.sevenDayRemaining * WEIGHT_WEEKLY_TENTHS) * (ScoreUnit \div 10)

calculateSessionResetBonus(usage) ==
  LET cap == MAX_SESSION_RESET_HOURS_FOR_BONUS * MinutesPerHour
      cappedHours == Min(hoursUntil(usage.fiveHourResetsAt), cap)
  IN  (cap - cappedHours) * BONUS_PER_HOUR_CLOSER_SESSION_RESET_HALVES
        * (ScoreUnit \div (2 * MinutesPerHour))

calculateWeeklyResetBonus(usage) ==
  LET cap == MAX_WEEKLY_RESET_DAYS_FOR_BONUS * HoursPerDay * MinutesPerHour
      cappedDays == Min(daysUntil(usage.sevenDayResetsAt), cap)
  IN  (cap - cappedDays) * BONUS_PER_DAY_CLOSER_WEEKLY_RESET_HALVES
        * (ScoreUnit \div (2 * HoursPerDay * MinutesPerHour))

\* mutants of IsCandidate: the exclusion dropped; the error test dropped
IsCandidate_keepsExcluded(u, exclude) == ~u.error

IsCandidate_keepsErrored(u, exclude) == u.accountName # exclude

\* the filter both selectBestAccount and scoreAccounts apply
IsCandidate(u, exclude) == ~u.error /\ u.accountName # exclude

\* mutant of activePenalty: the active-session penalty never applied
activePenalty_never(usage, state) == 0

activePenalty(usage, state) ==
  IF usage.accountName \in getActiveAccounts(state)
    THEN PENALTY_ACTIVE_SESSION * ScoreUnit ELSE 0

lastUsedPenalty(usage, state) ==
  IF usage.accountName = state.lastUsedAccount
    THEN PENALTY_LAST_USED * ScoreUnit ELSE 0

adjustedScore(usage, state) ==
  calculateBaseScore(usage)
    - activePenalty(usage, state)
    - lastUsedPenalty(usage, state)
    + calculateSessionResetBonus(usage)
    + calculateWeeklyResetBonus(usage)

scoreAccounts(us, state, exclude) ==
  LET kept == SelectSeq(us, LAMBDA u : IsCandidate(u, exclude))
  IN  [i \in DOMAIN kept |->
         [usage |-> kept[i],
          baseScore |-> calculateBaseScore(kept[i]),
          adjustedScore |-> adjustedScore(kept[i], state)]]

(***************************************************************************)
(* Array.prototype.sort is stable: items keep their order unless the       *)
(* comparator puts one strictly before the other.  keyOf[i] is the         *)
(* ascending sort key of items[i].                                         *)
(***************************************************************************)
\* mutant of InsertStable: an unstable sort, equal keys change places
RECURSIVE InsertStable_beforeEqual(_, _, _)
InsertStable_beforeEqual(sorted, item, k) ==
  IF k > Len(sorted) THEN Append(sorted, item)
  ELSE IF item.key <= sorted[k].key
         THEN SubSeq(sorted, 1, k - 1) \o <<item>> \o SubSeq(sorted, k, Len(sorted))
         ELSE InsertStable_beforeEqual(sorted, item, k + 1)

RECURSIVE InsertStable(_, _, _)
InsertStable(sorted, item, k) ==
  \* item goes before the first element whose key is strictly greater
  IF k > Len(sorted) THEN Append(sorted, item)
  ELSE IF item.key < sorted[k].key
         THEN SubSeq(sorted, 1, k - 1) \o <<item>> \o SubSeq(sorted, k, Len(sorted))
         ELSE InsertStable(sorted, item, k + 1)

RECURSIVE SortStableFrom(_, _, _)
SortStableFrom(keyed, i, acc) ==
  IF i > Len(keyed) THEN acc
  ELSE SortStableFrom(keyed, i + 1, InsertStable(acc, keyed[i], 1))

SortStable(keyed) == SortStableFrom(keyed, 1, <<>>)

\* rateLimited.sort((a, b) => a.fiveHourResetsAt - b.fiveHourResetsAt)
sortBySoonestReset(us) ==
  LET keyed == [i \in DOMAIN us |-> [key |-> us[i].fiveHourResetsAt, item |-> us[i]]]
      sorted == SortStable(keyed)
  IN  [i \in DOMAIN sorted |-> sorted[i].item]

\* mutant of sortByScoreDesc: the comparator's operands swapped (ascending)
sortByScoreDesc_ascending(scored) ==
  LET keyed == [i \in DOMAIN scored |-> [key |-> scored[i].adjustedScore, item |-> scored[i]]]
      sorted == SortStable(keyed)
  IN  [i \in DOMAIN sorted |-> sorted[i].item]

\* scored.sort((a, b) => b.adjustedScore - a.adjustedScore)
sortByScoreDesc(scored) ==
  LET keyed == [i \in DOMAIN scored |-> [key |-> 0 - scored[i].adjustedScore, item |-> scored[i]]]
      sorted == SortStable(keyed)
  IN  [i \in DOMAIN sorted |-> sorted[i].item]

(***************************************************************************)
(* selectBestAccount / selectNextAccount.                                   *)
(***************************************************************************)
Null == [isNull |-> TRUE]
IsNull(x) == "isNull" \in DOMAIN x

NotCalled == [notCalled |-> TRUE]
WasCalled(x) == "notCalled" \notin DOMAIN x

available(candidates) == SelectSeq(candidates, LAMBDA u : u.fiveHourRemaining > 0)
rateLimited(candidates) == SelectSeq(candidates, LAMBDA u : u.fiveHourRemaining <= 0)

selectBestAccount(us, exclude) ==
  IF Len(us) = 0 THEN Null
  ELSE
    LET state == cleanStaleSessions(loadState)
        candidates == SelectSeq(us, LAMBDA u : IsCandidate(u, exclude))
    IN  IF Len(candidates) = 0 THEN Null
        ELSE IF Len(available(candidates)) = 0
          THEN LET best == sortBySoonestReset(rateLimited(candidates))[1]
               IN  [accountName |-> best.accountName,
                    sessionRemaining |-> best.fiveHourRemaining,
                    weeklyRemaining |-> best.sevenDayRemaining,
                    score |-> 0,
                    isRateLimited |-> TRUE,
                    resetsAt |-> best.fiveHourResetsAt]
          ELSE LET scored == scoreAccounts(available(candidates), state, exclude)
                   best == sortByScoreDesc(scored)[1]
               IN  [accountName |-> best.usage.accountName,
                    sessionRemaining |-> best.usage.fiveHourRemaining,
                    weeklyRemaining |-> best.usage.sevenDayRemaining,
                    score |-> best.adjustedScore,
                    isRateLimited |-> FALSE]

selectNextAccount(us, currentAccount) == selectBestAccount(us, currentAccount)

(***************************************************************************)
(* SpecSelect: one call of selectBestAccount.                               *)
(***************************************************************************)
\* registry files the call may find: at most one session of another
\* process (alive or dead) on p or q, and any of three last-used values
SelSessions ==
  {<<>>} \cup {<<Session(a, pid, FetchTime)>> : a \in {"p", "q"}, pid \in {OtherPid, DeadPid}}

SelRegistries ==
  {[lastUsedAccount |-> l,
    lastUsedAt |-> IF l = NoLastUsed THEN NoTime ELSE FetchTime,
    activeSessions |-> ss] :
     l \in {NoLastUsed, "p", "q"}, ss \in SelSessions}

\* the clock at the call: at the fetch, or an hour after it
SelClocks == {FetchTime, FetchTime + H(1, 0)}

NoCode == 0 - 1

\* process ids of the hub processes that share the registry file
RegPids == {MyPid, OtherPid}

\* createPtyWrapper has not been called
NoWrapper == "none"

\* no process is inside a registry operation
RegIdle ==
  [pid \in RegPids |->
     [pc |-> "idle", next |-> DefaultState, threw |-> FALSE,
      trip |-> "none", pre |-> <<>>, preLive |-> {},
      entered |-> FALSE, lost |-> FALSE, left |-> FALSE]]

\* api.ts at module load: cachedUsageData = null, lastFetchTime = 0
NoCache == [data |-> Null, lastFetchTime |-> 0, fetches |-> 0, calls |-> 0]

\* the project directory does not exist
NoStore == [missing |-> TRUE]

\* nothing outside the selector, the registry and the Supervisor has run
AuxIdle ==
  /\ breakdown = NotCalled
  /\ cache = NoCache
  /\ store = NoStore
  /\ found = NotCalled

CtlIdle ==
  /\ args = [account |-> NoAccount]
  /\ proc = "init"
  /\ exitCode = NoCode
  /\ exitBy = 0
  /\ sup = <<>>
  /\ term = [rawMode |-> FALSE, flowing |-> FALSE, listeners |-> <<>>,
             resizers |-> <<>>, keys |-> 0]
  /\ lastOps = <<>>

InitSelect ==
  /\ usages \in UsageLists
  /\ excludeAccount \in Accounts \cup {NoAccount}
  /\ selection = NotCalled
  /\ stateFile \in SelRegistries
  /\ alive = {MyPid, OtherPid}
  /\ now \in SelClocks
  /\ CtlIdle
  /\ reg = RegIdle
  /\ wrap = NoWrapper
  /\ AuxIdle

CallSelectBestAccount ==
  /\ selection = NotCalled
  /\ selection' = selectBestAccount(usages, excludeAccount)
  /\ UNCHANGED <<usages, excludeAccount, stateFile, alive, now, reg>>
  /\ UNCHANGED ctlVars

NextSelect == CallSelectBestAccount

SpecSelect == InitSelect /\ [][NextSelect]_vars

(***************************************************************************)
(* Session registry operations of this process (pid MyPid).                *)
(***************************************************************************)
\* mutant of withoutPid: the entries of the other processes dropped too
withoutPid_dropsAll(sessions, pid) == <<>>

\* mutant of withoutPid: nothing is removed
withoutPid_keepsAll(sessions, pid) == sessions

\* state.activeSessions.filter(s => s.pid !== process.pid)
withoutPid(sessions, pid) == SelectSeq(sessions, LAMBDA s : s.pid # pid)

\* registerSession in process pid, from the cleaned state to the saved one
registerSessionIn(pid, state, accountName) ==
  [activeSessions |-> Append(withoutPid(state.activeSessions, pid),
                             Session(accountName, pid, now)),
   lastUsedAccount |-> accountName,
   lastUsedAt |-> now]

\* mutant of unregisterSessionIn: the entry is left in place
unregisterSessionIn_keepsEntry(pid, state) == state

\* unregisterSession in process pid, from the loaded state to the saved one
unregisterSessionIn(pid, state) ==
  [state EXCEPT !.activeSessions = withoutPid(@, pid)]

registerSession(accountName) ==
  registerSessionIn(MyPid, cleanStaleSessions(loadState), accountName)

\* mutant of unregisterSession: the file is written back as it was read
unregisterSession_keepsEntry == loadState

unregisterSession == unregisterSessionIn(MyPid, loadState)

(***************************************************************************)
(* PTY wrapper (createPtyWrapper): output watching.                        *)
(***************************************************************************)
RATE_LIMIT_TRIGGER ==
  <<"Y", "o", "u", "'", "v", "e", " ", "h", "i", "t", " ",
    "y", "o", "u", "r", " ", "l", "i", "m", "i", "t">>

OUTPUT_BUFFER_CHARS == 500

\* String.prototype.includes
includes(buf, needle) ==
  \E k \in 0..(Len(buf) - Len(needle)) :
    \A j \in 1..Len(needle) : buf[k + j] = needle[j]

\* String.prototype.slice(-n)
sliceLast(buf, n) ==
  IF Len(buf) > n THEN SubSeq(buf, Len(buf) - n + 1, Len(buf)) ELSE buf

\* outputBuffer += data; keep the last 500 chars
appendOutput(buf, data) == sliceLast(buf \o data, OUTPUT_BUFFER_CHARS)

\* mutant of shouldEmitRateLimit: the detected flag not consulted
shouldEmitRateLimit_noFlag(s, buf) == includes(buf, RATE_LIMIT_TRIGGER)

\* if (!rateLimitDetected && outputBuffer.includes(RATE_LIMIT_TRIGGER))
shouldEmitRateLimit(s, buf) ==
  ~s.rateLimitDetected /\ includes(buf, RATE_LIMIT_TRIGGER)

\* output chunks the child may write: the marker, and some other text
OtherText == <<"o", "k", "\n">>
Chunks == {RATE_LIMIT_TRIGGER, OtherText}

(***************************************************************************)
(* launchClaudeWithPty: one closure per launch, with its wrapper.          *)
(***************************************************************************)
\* codes a child may exit with
ExitCodes == {0, 1}

\* argument tokens, as the characters String.prototype.includes looks at
ResumeFlag == <<"-", "-", "r", "e", "s", "u", "m", "e">>

\* the conversation findActiveSessionId finds; NoSession is its null
Sid == <<"s", "1">>

NoSession == <<>>

\* the arguments the user gave after the hub's own options: the hub was
\* started on an earlier conversation
UserArgs == <<ResumeFlag, Sid>>

\* claudeArgs.indexOf('--resume') + 1, as a position counted from 1
AfterResume(claudeArgs) ==
  IF \E k \in DOMAIN claudeArgs : claudeArgs[k] = ResumeFlag
    THEN 1 + CHOOSE k \in DOMAIN claudeArgs :
               /\ claudeArgs[k] = ResumeFlag
               /\ \A j \in 1..(k - 1) : claudeArgs[j] # ResumeFlag
    ELSE 1

\* onRateLimitDetected: resumeArgs
resumeArgsRateLimit(claudeArgs, sessionId) ==
  IF sessionId = NoSession
    THEN claudeArgs
    ELSE <<ResumeFlag, sessionId>> \o
         SelectSeq(claudeArgs,
                   LAMBDA a : /\ a # ResumeFlag
                              /\ ~(/\ AfterResume(claudeArgs) \in DOMAIN claudeArgs
                                    /\ includes(claudeArgs[AfterResume(claudeArgs)], a)))

RECURSIVE FilterResume(_, _)
\* claudeArgs.filter((a, i) => ...) of switchAccount, from position i on
FilterResume(claudeArgs, i) ==
  IF i > Len(claudeArgs) THEN <<>>
  ELSE IF claudeArgs[i] = ResumeFlag \/ (i > 1 /\ claudeArgs[i - 1] = ResumeFlag)
    THEN FilterResume(claudeArgs, i + 1)
    ELSE <<claudeArgs[i]>> \o FilterResume(claudeArgs, i + 1)

\* switchAccount: resumeArgs
resumeArgsManual(claudeArgs, sessionId) ==
  IF sessionId = NoSession
    THEN claudeArgs
    ELSE <<ResumeFlag, sessionId>> \o FilterResume(claudeArgs, 1)

NewSup(accountName, claudeArgs, usageData, autoSwitch, parent, cause) ==
  [accountName |-> accountName,
   claudeArgs |-> claudeArgs,
   usageData |-> usageData,
   autoSwitch |-> autoSwitch,
   mode |-> "pty",                 \* "pty" | "fallback" (launchClaudeFallback)
   isHandlingRateLimit |-> FALSE,
   isHandlingManualSwitch |-> FALSE,
   \* wrapper state
   ptyProcess |-> TRUE,            \* the ptyProcess variable is non-null
   child |-> "running",            \* "running" | "killed" | "exited"
   outputBuffer |-> <<>>,
   rateLimitDetected |-> FALSE,
   outputPaused |-> FALSE,
   isProcessingFunctionKey |-> FALSE,
   commandInputHandler |-> FALSE,  \* a handler is installed
   \* position of the F10 command: "none" | "fetching" | "menu" | "timer"
   overlay |-> "none",
   selectedAccount |-> NoAccount,
   \* history
   parent |-> parent,              \* the closure that launched this one, 0 for main
   cause |-> cause,                \* "main" | "ratelimit" | "manual"
   emits |-> 0,                    \* 'rate-limit' events emitted
   chunks |-> 0]                   \* output chunks received

\* pty.spawn threw: the wrapper has no child and its methods do nothing; the
\* 'error' handler has started the passthrough child of launchClaudeFallback
FallbackSup(accountName, claudeArgs, usageData, autoSwitch, parent, cause) ==
  [NewSup(accountName, claudeArgs, usageData, autoSwitch, parent, cause)
     EXCEPT !.mode = "fallback", !.ptyProcess = FALSE]

\* wrapper.kill(): signal the child if there is one, forget it
killWrapper(s) ==
  [s EXCEPT !.ptyProcess = FALSE,
            !.child = IF s.ptyProcess THEN "killed" ELSE @]

RemoveListener(listeners, i) == SelectSeq(listeners, LAMBDA l : l # i)

\* wrapper.kill(), terminal side: removeListener, setRawMode(false), pause
killTerminal(t, i) ==
  [t EXCEPT !.rawMode = FALSE, !.flowing = FALSE,
            !.listeners = RemoveListener(@, i),
            !.resizers = RemoveListener(@, i)]

\* createPtyWrapper, terminal side: setRawMode(true), resume, on('data')
attachTerminal(t, i) ==
  [t EXCEPT !.rawMode = TRUE, !.flowing = TRUE, !.listeners = Append(@, i),
            !.resizers = Append(@, i)]

\* cleanupTerminal(): setRawMode(false), pause
cleanupTerminal(t) == [t EXCEPT !.rawMode = FALSE, !.flowing = FALSE]

\* usageData.map(u => u.accountName === accountName
\*                      ? {...u, fiveHourRemaining: 0, fiveHourUsed: 100} : u)
updatedUsage(usageData, accountName) ==
  [k \in DOMAIN usageData |->
     IF usageData[k].accountName = accountName
       THEN [usageData[k] EXCEPT !.fiveHourRemaining = 0]
       ELSE usageData[k]]

\* if (!nextAccount || nextAccount.isRateLimited)
noReplacement(next) == IsNull(next) \/ next.isRateLimited

\* if (!autoSwitch || isHandlingRateLimit) return
rateLimitIgnored(s) == ~s.autoSwitch \/ s.isHandlingRateLimit

\* mutant of exitSuppressed: only the manual-switch flag consulted
exitSuppressed_manualOnly(s) == s.isHandlingManualSwitch

\* if (isHandlingRateLimit || isHandlingManualSwitch) return
exitSuppressed(s) == s.isHandlingRateLimit \/ s.isHandlingManualSwitch

\* the accounts the F10 menu offers, in snapshot order: all but the current
switchOptions(accountName) ==
  SelectSeq(ConfigOrder, LAMBDA a : a # accountName)

(***************************************************************************)
(* Spec: one hub process.                                                   *)
(***************************************************************************)
\* snapshots main may have fetched: one per configured account
CtlShapes == {ErrorShape(FetchTime), ShapeP, ShapeExhaustedSoon}

\* the last account is either usable or unreadable
CtlLastShapes == {ErrorShape(FetchTime), ShapeQ}

CtlUsageLists ==
  {<<Usage(ConfigOrder[1], a), Usage(ConfigOrder[2], b), Usage(ConfigOrder[3], c)>> :
     a \in CtlShapes, b \in CtlShapes, c \in CtlLastShapes}

\* the registry file main finds: another hub process is running on q
CtlRegistries ==
  {[lastUsedAccount |-> "q", lastUsedAt |-> FetchTime,
    activeSessions |-> <<Session("q", OtherPid, FetchTime)>>]}

Init ==
  /\ usages \in CtlUsageLists
  /\ excludeAccount = NoAccount
  /\ selection = NotCalled
  /\ stateFile \in CtlRegistries
  /\ alive = {MyPid, OtherPid}
  /\ now = FetchTime
  /\ args \in {[account |-> a, claudeArgs |-> UserArgs] : a \in {NoAccount, "r"}}
  /\ proc = "init"
  /\ exitCode = NoCode
  /\ exitBy = 0
  /\ sup = <<>>
  /\ term = [rawMode |-> FALSE, flowing |-> FALSE, listeners |-> <<>>,
             resizers |-> <<>>, keys |-> 0]
  /\ lastOps = <<>>
  /\ reg = RegIdle
  /\ wrap = NoWrapper
  /\ AuxIdle

\* launchClaudeWithPty(accountName, ...) called with sups as the closures so
\* far: the closure and the terminal after createPtyWrapper, or, when
\* pty.spawn throws (spawnOk false), after the 'error' handler has run
launchedSups(sups, spawnOk, accountName, claudeArgs, usageData, autoSwitch, parent, cause) ==
  Append(sups,
         IF spawnOk
           THEN NewSup(accountName, claudeArgs, usageData, autoSwitch, parent, cause)
           ELSE FallbackSup(accountName, claudeArgs, usageData, autoSwitch,
                            parent, cause))

launchedTerminal(t, spawnOk, i) ==
  IF spawnOk THEN attachTerminal(t, i) ELSE cleanupTerminal(t)

launchOps(spawnOk) ==
  IF spawnOk THEN <<"register", "spawn">>
             ELSE <<"register", "spawn-failed", "cleanupTerminal", "fallback">>

\* main(): pick the account (auto-selection unless --account), then launch
Main(spawnOk) ==
  /\ proc = "init"
  /\ UNCHANGED <<usages, excludeAccount, alive, now, reg, wrap, auxVars, args, exitBy>>
  /\ IF args.account = NoAccount
       THEN LET picked == selectBestAccount(usages, NoAccount)
            IN  /\ selection' = picked
                /\ IF IsNull(picked)
                     THEN /\ spawnOk
                          /\ proc' = "exited"
                          /\ exitCode' = 1
                          /\ UNCHANGED <<sup, term, stateFile>>
                          /\ lastOps' = <<"select", "exit">>
                     ELSE /\ proc' = "running"
                          /\ exitCode' = exitCode
                          /\ stateFile' = registerSession(picked.accountName)
                          /\ sup' = launchedSups(sup, spawnOk, picked.accountName,
                                                 args.claudeArgs, usages, TRUE,
                                                 0, "main")
                          /\ term' = launchedTerminal(term, spawnOk, 1)
                          /\ lastOps' = <<"select">> \o launchOps(spawnOk)
       ELSE /\ selection' = selection
            /\ proc' = "running"
            /\ exitCode' = exitCode
            /\ stateFile' = registerSession(args.account)
            /\ sup' = launchedSups(sup, spawnOk, args.account, args.claudeArgs,
                                   usages, TRUE, 0, "main")
            /\ term' = launchedTerminal(term, spawnOk, 1)
            /\ lastOps' = launchOps(spawnOk)

RECURSIVE SumChunks(_, _)
SumChunks(sups, n) ==
  IF n = 0 THEN 0 ELSE sups[n].chunks + SumChunks(sups, n - 1)

\* output chunks received so far, over all closures
TotalChunks == SumChunks(sup, Len(sup))

\* onRateLimitDetected of closure i (s2: the closure with its flag set) from
\* wrapper.kill() on, towards nextAccount.
\* syncOk: syncConversations and syncHistory return (they throw otherwise);
\* spawnOk: pty.spawn of the replacement succeeds
FailOver(i, s2, nextAccount, syncOk, spawnOk) ==
  IF ~syncOk
    \* the exception leaves the handler and the data callback: the
    \* process dies of it with code 1, running its 'exit' listeners
    THEN /\ spawnOk
         /\ sup' = [sup EXCEPT ![i] = killWrapper(s2)]
         /\ term' = killTerminal(term, i)
         /\ proc' = "exited"
         /\ exitCode' = 1
         /\ exitBy' = 0
         /\ stateFile' = unregisterSession
         /\ lastOps' = <<"rate-limit", "select", "kill", "sync-failed",
                         "uncaught", "unregister">>
    ELSE /\ Len(sup) < MaxLaunches
         /\ \E sessionId \in {NoSession, Sid} :
              sup' = launchedSups([sup EXCEPT ![i] = killWrapper(s2)], spawnOk,
                                nextAccount.accountName,
                                resumeArgsRateLimit(s2.claudeArgs, sessionId),
                                updatedUsage(s2.usageData, s2.accountName),
                                s2.autoSwitch, i, "ratelimit")
         /\ term' = launchedTerminal(killTerminal(term, i), spawnOk, Len(sup) + 1)
         /\ stateFile' = registerSession(nextAccount.accountName)
         /\ UNCHANGED <<proc, exitCode, exitBy>>
         /\ lastOps' = <<"rate-limit", "select", "kill", "sync", "findSession">>
                         \o launchOps(spawnOk)

\* ptyProcess.onData of closure i, with the onRateLimitDetected callback
OnData(i, data) ==
  /\ proc = "running"
  /\ sup[i].mode = "pty"
  /\ sup[i].child \in {"running", "killed"}
  /\ TotalChunks + term.keys < MaxEvents
  /\ UNCHANGED <<usages, excludeAccount, selection, alive, now, reg, wrap, auxVars, args>>
  /\ LET s0 == sup[i]
         buf == appendOutput(s0.outputBuffer, data)
         fires == shouldEmitRateLimit(s0, buf)
         s1 == [s0 EXCEPT !.outputBuffer = buf,
                          !.chunks = @ + 1,
                          !.rateLimitDetected = @ \/ fires,
                          !.emits = IF fires THEN @ + 1 ELSE @]
         s2 == [s1 EXCEPT !.isHandlingRateLimit = TRUE]
         nextAccount == selectNextAccount(s2.usageData, s2.accountName)
     IN  IF ~fires
           THEN /\ sup' = [sup EXCEPT ![i] = s1]
                /\ UNCHANGED <<term, stateFile, proc, exitCode, exitBy>>
                /\ lastOps' = <<>>
         ELSE IF rateLimitIgnored(s1)
           THEN /\ sup' = [sup EXCEPT ![i] = s1]
                /\ UNCHANGED <<term, stateFile, proc, exitCode, exitBy>>
                /\ lastOps' = <<"rate-limit">>
         ELSE IF noReplacement(nextAccount)
           THEN /\ sup' = [sup EXCEPT ![i] = s2]
                /\ UNCHANGED <<term, stateFile, proc, exitCode, exitBy>>
                /\ lastOps' = <<"rate-limit", "select", "notice">>
         ELSE \E syncOk \in BOOLEAN, spawnOk \in BOOLEAN :
                FailOver(i, s2, nextAccount, syncOk, spawnOk)

\* the exit code the handler received, as an entry of lastOps
ExitTag(code) == IF code = 0 THEN "exit code 0" ELSE "exit code 1"

\* the child of closure i exits: ptyProcess.onExit with the onExit callback
\* in PTY mode, child.on('exit') of launchClaudeFallback in passthrough mode
OnExit(i, code) ==
  /\ proc = "running"
  /\ sup[i].child \in {"running", "killed"}
  /\ UNCHANGED <<usages, excludeAccount, selection, alive, now, reg, wrap, auxVars, args>>
  /\ LET s1 == [sup[i] EXCEPT !.ptyProcess = FALSE, !.child = "exited"]
     IN  /\ sup' = [sup EXCEPT ![i] = s1]
         /\ IF s1.mode = "fallback"
              THEN /\ term' = term
                   /\ proc' = "exited"
                   /\ exitCode' = code
                   /\ exitBy' = i
                   /\ stateFile' = unregisterSession
                   /\ lastOps' = <<ExitTag(code), "process.exit", "unregister">>
            ELSE IF exitSuppressed(s1)
              THEN /\ UNCHANGED <<proc, exitCode, exitBy, term, stateFile>>
                   /\ lastOps' = <<>>
              ELSE /\ term' = cleanupTerminal(term)
                   /\ proc' = "exited"
                   /\ exitCode' = code
                   /\ exitBy' = i
                   /\ stateFile' = unregisterSession
                   /\ lastOps' = <<ExitTag(code), "cleanupTerminal", "process.exit",
                                   "unregister">>

\* parseInt(char, 10) on one key; 0 stands for NaN, which fails the range test
parseInt(key) ==
  IF key = "1" THEN 1 ELSE IF key = "2" THEN 2 ELSE IF key = "3" THEN 3 ELSE 0

\* waitForSelection's input handler on one keypress
menuInput(s, key) ==
  LET options == switchOptions(s.accountName)
      cancelled == [s EXCEPT !.commandInputHandler = FALSE,
                             !.outputPaused = FALSE,
                             !.overlay = "none",
                             !.isProcessingFunctionKey = FALSE]
  IN  IF key \in {"Esc", "F10"} THEN cancelled
      ELSE IF Len(options) = 0 THEN cancelled
      ELSE IF parseInt(key) >= 1 /\ parseInt(key) <= Len(options)
        THEN [s EXCEPT !.commandInputHandler = FALSE,
                       !.outputPaused = FALSE,
                       !.overlay = "timer",
                       !.selectedAccount = options[parseInt(key)]]
        ELSE s

\* stdinHandler of one closure on one keypress
stdinHandler(s, key) ==
  IF s.isProcessingFunctionKey
    THEN IF s.commandInputHandler THEN menuInput(s, key) ELSE s
  ELSE IF key = "F10"
    THEN [s EXCEPT !.isProcessingFunctionKey = TRUE,
                   !.outputPaused = TRUE,
                   !.overlay = "fetching"]
    ELSE s

Keys == {"F10", "Esc", "1", "2"}

\* a stdin 'data' event: every attached stdinHandler receives the key
OnStdin(key) ==
  /\ proc = "running"
  /\ term.flowing
  /\ TotalChunks + term.keys < MaxEvents
  /\ term' = [term EXCEPT !.keys = @ + 1]
  /\ sup' = [k \in DOMAIN sup |->
               IF k \in Range(term.listeners) THEN stdinHandler(sup[k], key) ELSE sup[k]]
  \* a key that is only forwarded to the child changes nothing here
  /\ sup' # sup
  /\ lastOps' = <<>>
  /\ UNCHANGED <<usages, excludeAccount, selection, stateFile, alive, now, reg, wrap, auxVars, args,
                 proc, exitCode, exitBy>>

\* switchHandler of closure i resumes when getAllAPIUsage resolves: the menu
\* is rendered and the selection handler installed
OnUsageFetched(i) ==
  /\ proc = "running"
  /\ sup[i].overlay = "fetching"
  /\ sup' = [sup EXCEPT ![i].overlay = "menu", ![i].commandInputHandler = TRUE]
  /\ lastOps' = <<>>
  /\ UNCHANGED <<usages, excludeAccount, selection, stateFile, alive, now, reg, wrap, auxVars, args,
                 proc, exitCode, exitBy, term>>

\* the 50 ms timer of switchHandler fires: context.switchAccount(selected, true)
\* of closure i runs, then the F10 command returns. An exception of the sync
\* job is caught by executeCommand and reported as the command's message
OnSwitchTimer(i, syncOk, spawnOk) ==
  /\ proc = "running"
  /\ sup[i].overlay = "timer"
  /\ LET s1 == [sup[i] EXCEPT !.isHandlingManualSwitch = TRUE]
         s2 == [killWrapper(s1) EXCEPT !.overlay = "none",
                                       !.isProcessingFunctionKey = FALSE]
     IN  IF ~syncOk
           THEN /\ spawnOk
                /\ sup' = [sup EXCEPT ![i] = s2]
                /\ term' = killTerminal(term, i)
                /\ stateFile' = stateFile
                /\ lastOps' = <<"timer", "findSession", "kill", "sync-failed", "caught">>
           ELSE /\ Len(sup) < MaxLaunches
                /\ \E sessionId \in {NoSession, Sid} :
                     sup' = launchedSups([sup EXCEPT ![i] = s2], spawnOk,
                                         s1.selectedAccount,
                                         resumeArgsManual(s1.claudeArgs, sessionId),
                                         s1.usageData, s1.autoSwitch, i, "manual")
                /\ term' = launchedTerminal(killTerminal(term, i), spawnOk, Len(sup) + 1)
                /\ stateFile' = registerSession(s1.selectedAccount)
                /\ lastOps' = <<"timer", "findSession", "kill", "sync">>
                                \o launchOps(spawnOk)
  /\ UNCHANGED <<usages, excludeAccount, selection, alive, now, reg, wrap, auxVars, args,
                 proc, exitCode, exitBy>>

\* signals launchClaudeWithPty installs a handler for
Signals == {"SIGINT", "SIGTERM"}

\* process.on('SIGINT' | 'SIGTERM'): cleanupSession(); process.exit(0), whose
\* 'exit' listeners run cleanupSession once more on the file just written
OnSignal(sig) ==
  /\ proc = "running"
  /\ sig \in Signals
  /\ stateFile' = unregisterSession
  /\ proc' = "exited"
  /\ exitCode' = 0
  /\ exitBy' = 0
  /\ lastOps' = <<"signal", "unregister", "process.exit", "unregister">>
  /\ UNCHANGED <<usages, excludeAccount, selection, alive, now, reg, wrap, auxVars, args, sup, term>>

Next ==
  \/ \E spawnOk \in BOOLEAN : Main(spawnOk)
  \/ \E i \in DOMAIN sup, data \in Chunks : OnData(i, data)
  \/ \E i \in DOMAIN sup, code \in ExitCodes : OnExit(i, code)
  \/ \E key \in Keys : OnStdin(key)
  \/ \E i \in DOMAIN sup : OnUsageFetched(i)
  \/ \E i \in DOMAIN sup, syncOk \in BOOLEAN, spawnOk \in BOOLEAN :
       OnSwitchTimer(i, syncOk, spawnOk)
  \/ \E sig \in Signals : OnSignal(sig)

Spec == Init /\ [][Next]_vars

(***************************************************************************)
(* SpecRegistry: hub processes sharing the registry file.  registerSession *)
(* and unregisterSession are read-modify-writes of the whole file with no  *)
(* lock: another process may read or write between the read and the write. *)
(***************************************************************************)
\* accounts the processes launch on
RegAccounts == {"p", "q"}

\* files that turn up without a hub writing them
DamagedFiles == {[fault |-> f] : f \in FileFaults} \cup {Fieldless}

\* process pid starts a further operation: a round trip it had finished or
\* begun is no longer the last thing it did.  entered: its last completed
\* write was a register; lost: a write of another process has since
\* replaced a file holding its entry by one without it; left: its last
\* completed write was an unregister (kept when the process ends, until its
\* process id is given to a new process)
Forget(r) == [r EXCEPT !.trip = "none", !.pre = <<>>, !.preLive = {}]

InitRegistry ==
  /\ usages = <<Usage("p", ShapeP), Usage("q", ShapeQ), Usage("r", ShapeX)>>
  /\ excludeAccount = NoAccount
  /\ selection = NotCalled
  /\ stateFile \in {DefaultState, [fault |-> "missing"]}
  /\ alive = RegPids
  /\ now = FetchTime
  /\ CtlIdle
  /\ reg = RegIdle
  /\ wrap = NoWrapper
  /\ AuxIdle

\* registerSession up to saveState: loadState, cleanStaleSessions (a
\* TypeError when the parsed object has no activeSessions), filter, push
RegisterRead(pid, accountName) ==
  /\ pid \in alive
  /\ reg[pid].pc = "idle"
  /\ LET state == loadState
     IN  IF ~HasSessions(state)
           THEN reg' = [reg EXCEPT ![pid] = [Forget(@) EXCEPT !.threw = TRUE]]
           ELSE reg' = [reg EXCEPT ![pid] =
                  [pc |-> "write",
                   next |-> registerSessionIn(pid, cleanStaleSessions(state),
                                              accountName),
                   threw |-> FALSE,
                   trip |-> "registering",
                   pre |-> state.activeSessions,
                   preLive |-> alive,
                   entered |-> reg[pid].entered,
                   lost |-> reg[pid].lost,
                   left |-> reg[pid].left]]
  /\ UNCHANGED <<selVars, envVars, ctlVars>>

\* unregisterSession up to saveState: loadState, filter (a TypeError when the
\* parsed object has no activeSessions)
UnregisterRead(pid) ==
  /\ pid \in alive
  /\ reg[pid].pc = "idle"
  /\ LET state == loadState
     IN  IF ~HasSessions(state)
           THEN reg' = [reg EXCEPT ![pid] = [Forget(@) EXCEPT !.threw = TRUE]]
           ELSE reg' = [reg EXCEPT ![pid] =
                  [(IF @.trip = "registered" THEN @ ELSE Forget(@))
                     EXCEPT !.pc = "write",
                            !.next = unregisterSessionIn(pid, state),
                            !.threw = FALSE,
                            !.trip = IF @ = "registered" THEN "unregistering"
                                                         ELSE "none"]]
  /\ UNCHANGED <<selVars, envVars, ctlVars>>

\* how far process pid's register-unregister round trip is after its write
tripAfterWrite(trip, ok) ==
  IF ~ok THEN "none"
  ELSE IF trip = "registering" THEN "registered"
  ELSE IF trip = "unregistering" THEN "roundtrip"
  ELSE "none"

\* saveState of the operation process pid is in: the file is replaced, or
\* (ok false) writeFileSync throws and the error is swallowed
SaveState(pid, ok) ==
  /\ pid \in alive
  /\ reg[pid].pc = "write"
  /\ stateFile' = IF ok THEN reg[pid].next ELSE stateFile
  /\ reg' = [q \in DOMAIN reg |->
               LET held(state) ==
                     /\ HasSessions(state)
                     /\ \E k \in DOMAIN state.activeSessions :
                          state.activeSessions[k].pid = q
               IN  IF q = pid
                     THEN LET trip == tripAfterWrite(reg[q].trip, ok)
                              r == [reg[q] EXCEPT
                                      !.pc = "idle", !.next = DefaultState,
                                      !.entered = IF ok THEN held(reg[q].next) ELSE @,
                                      !.lost = IF ok THEN FALSE ELSE @,
                                      !.left = IF ok THEN ~held(reg[q].next) ELSE @]
                          IN  IF trip = "none" THEN Forget(r)
                                               ELSE [r EXCEPT !.trip = trip]
                   ELSE IF ok
                     THEN [Forget(reg[q]) EXCEPT
                             !.lost = @ \/ (/\ reg[q].entered
                                            /\ held(stateFile)
                                            /\ ~held(reg[pid].next))]
                   ELSE reg[q]]
  /\ UNCHANGED <<selVars, alive, now, ctlVars>>

\* selectBestAccount in process pid: cleanStaleSessions(loadState()) throws a
\* TypeError when the parsed object has no activeSessions
SelectCall(pid) ==
  /\ pid \in alive
  /\ reg[pid].pc = "idle"
  /\ IF ~HasSessions(loadState)
       THEN /\ reg' = [reg EXCEPT ![pid].threw = TRUE]
            /\ selection' = selection
       ELSE /\ reg' = [reg EXCEPT ![pid].threw = FALSE]
            /\ selection' = selectBestAccount(usages, excludeAccount)
  /\ UNCHANGED <<usages, excludeAccount, envVars, ctlVars>>

\* process pid ends with no further write: after its unregister, or without
\* unregistering (SIGKILL, power loss)
ProcessDies(pid) ==
  /\ pid \in alive
  /\ alive' = alive \ {pid}
  /\ reg' = [reg EXCEPT ![pid] = [RegIdle[pid] EXCEPT !.left = reg[pid].left]]
  /\ UNCHANGED <<selVars, stateFile, now, ctlVars>>

\* a new hub process gets the process id pid
ProcessStarts(pid) ==
  /\ pid \notin alive
  /\ alive' = alive \cup {pid}
  /\ reg' = [reg EXCEPT ![pid] = RegIdle[pid]]
  /\ UNCHANGED <<selVars, stateFile, now, ctlVars>>

\* the file is removed, made unreadable or overwritten from outside
Damage(file) ==
  /\ stateFile # file
  /\ stateFile' = file
  /\ reg' = [q \in DOMAIN reg |-> Forget(reg[q])]
  /\ UNCHANGED <<selVars, alive, now, ctlVars>>

NextRegistry ==
  \/ \E pid \in RegPids, accountName \in RegAccounts : RegisterRead(pid, accountName)
  \/ \E pid \in RegPids : UnregisterRead(pid)
  \/ \E pid \in RegPids, ok \in BOOLEAN : SaveState(pid, ok)
  \/ \E pid \in RegPids : SelectCall(pid)
  \/ \E pid \in RegPids : ProcessDies(pid)
  \/ \E pid \in RegPids : ProcessStarts(pid)
  \/ \E file \in DamagedFiles : Damage(file)

SpecRegistry == InitRegistry /\ [][NextRegistry]_vars

(***************************************************************************)
(* Claims about the selector, over the state after the call.               *)
(***************************************************************************)
Called == WasCalled(selection)

\* the registry the call scores against: the file without dead-process entries
LiveState == cleanStaleSessions(stateFile)

\* snapshot i survives the drop of errored snapshots and of the excluded account
Eligible(i) == ~usages[i].error /\ usages[i].accountName # excludeAccount

AvailableAt(i) == Eligible(i) /\ usages[i].fiveHourRemaining > 0

\* finalScore = baseScore + sessionBonus + windowBonus - activePenalty - lastUsedPenalty
FinalScoreAt(i) ==
  calculateBaseScore(usages[i])
    + calculateSessionResetBonus(usages[i])
    + calculateWeeklyResetBonus(usages[i])
    - activePenalty(usages[i], LiveState)
    - lastUsedPenalty(usages[i], LiveState)

\* C2: with at least one available candidate, selectBestAccount returns,
\* with isRateLimited = false, an available candidate of maximal finalScore,
\* and among several of maximal finalScore the first in input order.
C2_MaxScoreFirstOnTie ==
  (Called /\ \E i \in DOMAIN usages : AvailableAt(i)) =>
    /\ ~IsNull(selection)
    /\ selection.isRateLimited = FALSE
    /\ \E i \in DOMAIN usages :
         /\ AvailableAt(i)
         /\ selection.accountName = usages[i].accountName
         /\ selection.score = FinalScoreAt(i)
         /\ \A j \in DOMAIN usages :
              AvailableAt(j) =>
                /\ FinalScoreAt(j) <= FinalScoreAt(i)
                /\ (j < i => FinalScoreAt(j) < FinalScoreAt(i))

\* a lower-scored candidate comes first, then two candidates tie at the
\* maximum, and the earlier of the two is returned
C2_Witness ==
  /\ Called
  /\ ~IsNull(selection)
  /\ \E k, i, j \in DOMAIN usages :
       /\ k < i /\ i < j
       /\ AvailableAt(k) /\ AvailableAt(i) /\ AvailableAt(j)
       /\ FinalScoreAt(k) < FinalScoreAt(i)
       /\ FinalScoreAt(i) = FinalScoreAt(j)
       /\ usages[i].fiveHourRemaining # usages[j].fiveHourRemaining
       /\ selection.accountName = usages[i].accountName

\* C3: when every eligible candidate is exhausted (and one exists),
\* selectBestAccount returns the one with the earliest sessionResetAt, with
\* isRateLimited = true and resetsAt that instant; equal instants resolve to
\* the first in input order.
C3_AllExhaustedSoonestReset ==
  (/\ Called
   /\ \E i \in DOMAIN usages : Eligible(i)
   /\ \A i \in DOMAIN usages : Eligible(i) => usages[i].fiveHourRemaining = 0) =>
    /\ ~IsNull(selection)
    /\ selection.isRateLimited = TRUE
    /\ \E i \in DOMAIN usages :
         /\ Eligible(i)
         /\ selection.accountName = usages[i].accountName
         /\ selection.resetsAt = usages[i].fiveHourResetsAt
         /\ \A j \in DOMAIN usages :
              Eligible(j) =>
                /\ usages[j].fiveHourResetsAt >= usages[i].fiveHourResetsAt
                /\ (j < i => usages[j].fiveHourResetsAt > usages[i].fiveHourResetsAt)

\* three exhausted candidates: a later reset first, then two equal earliest
\* resets, of which the earlier in input order is returned
C3_Witness ==
  /\ Called
  /\ ~IsNull(selection)
  /\ Len(usages) = 3
  /\ \A i \in DOMAIN usages : Eligible(i) /\ usages[i].fiveHourRemaining = 0
  /\ usages[1].fiveHourResetsAt > usages[2].fiveHourResetsAt
  /\ usages[2].fiveHourResetsAt = usages[3].fiveHourResetsAt
  /\ selection.isRateLimited = TRUE
  /\ selection.accountName = usages[2].accountName

\* C4: the account selectBestAccount(snapshots, X) returns is never X and
\* never an account whose snapshot carries an error, on the scored path and
\* on the all-exhausted path.
C4_NeverExcludedNorErrored ==
  (Called /\ ~IsNull(selection)) =>
    /\ selection.accountName # excludeAccount
    /\ \A i \in DOMAIN usages :
         usages[i].accountName = selection.accountName => ~usages[i].error

\* the excluded account X is available and would score strictly highest,
\* an errored snapshot is present, and another account is returned
C4_Witness ==
  /\ Called
  /\ ~IsNull(selection)
  /\ \E x, e \in DOMAIN usages :
       /\ usages[x].accountName = excludeAccount
       /\ ~usages[x].error /\ usages[x].fiveHourRemaining > 0
       /\ usages[e].error
       /\ \A j \in DOMAIN usages :
            (j # x /\ AvailableAt(j)) => FinalScoreAt(j) < FinalScoreAt(x)
  /\ selection.accountName # excludeAccount

\* C5: selectBestAccount returns none exactly when no snapshot remains after
\* dropping errored snapshots and the excluded account.
C5_NoneIffNoCandidate ==
  Called => (IsNull(selection) <=> ~(\E i \in DOMAIN usages : Eligible(i)))

\* a single-account setup with that account excluded: none is returned
C5_Witness ==
  /\ Called
  /\ Len(usages) = 1
  /\ ~usages[1].error
  /\ usages[1].accountName = excludeAccount
  /\ IsNull(selection)

\* the documented example: p 88%/79% resetting in 3h20m/6d12h, q 61%/57%
\* resetting in 3h20m/3d13h, read at the fetch instant, neither excluded
ScenarioPQ ==
  /\ Called
  /\ now = FetchTime
  /\ Len(usages) = 2
  /\ Range(usages) = {Usage("p", ShapeP), Usage("q", ShapeQ)}
  /\ excludeAccount \notin {"p", "q"}

HasActiveSession(a) == a \in getActiveAccounts(LiveState)
IsLastUsed(a) == stateFile.lastUsedAccount = a

\* C6: in the example, p is picked when it carries neither penalty, and q is
\* picked when p carries both (an active session of a live process and
\* last-used, 20 points) and q carries neither.
C6_ScenarioAB ==
  ScenarioPQ =>
    /\ (~HasActiveSession("p") /\ ~IsLastUsed("p")) => selection.accountName = "p"
    /\ (/\ HasActiveSession("p") /\ IsLastUsed("p")
        /\ ~HasActiveSession("q") /\ ~IsLastUsed("q")) => selection.accountName = "q"

\* scenario B is reached: p carries both penalties and q is returned
C6_Witness ==
  /\ ScenarioPQ
  /\ HasActiveSession("p") /\ IsLastUsed("p")
  /\ selection.accountName = "q"

(***************************************************************************)
(* Claims about the failover controller, over the steps of one process.    *)
(***************************************************************************)
\* the account onRateLimitDetected of closure i would switch to
Replacement(i) == selectNextAccount(sup[i].usageData, sup[i].accountName)

\* this step delivers output to closure i and its wrapper emits 'rate-limit'
Detects(i) == sup'[i].emits = sup[i].emits + 1

\* this step delivers the exit of the child of closure i
ChildExits(i) == sup[i].child # "exited" /\ sup'[i].child = "exited"

\* a manual switch was selected in closure i and its timer has not fired
ManualSelected(i) == sup[i].overlay = "timer"

\* closure i has launched a successor on a rate-limit detection
FailedOver(i) ==
  \E j \in DOMAIN sup : sup[j].parent = i /\ sup[j].cause = "ratelimit"

Before(ops, a, b) ==
  \E m, n \in DOMAIN ops : m < n /\ ops[m] = a /\ ops[n] = b

Does(ops, a) == \E m \in DOMAIN ops : ops[m] = a

C7_RateLimitEmittedAtMostOnce ==
  \A i \in DOMAIN sup : sup[i].emits <= 1

\* the marker arrived a second time in the same session, both copies are
\* in the buffer, and one event was emitted
C7_Witness ==
  \E i \in DOMAIN sup :
    /\ sup[i].outputBuffer = RATE_LIMIT_TRIGGER \o RATE_LIMIT_TRIGGER
    /\ sup[i].rateLimitDetected
    /\ sup[i].emits = 1

\* C8: at most one failover is in flight: a detection that arrives after a
\* manual switch was selected and before it completes performs no kill, no
\* sync and no relaunch, and neither does a manual switch whose closure has
\* failed over on a detection in the meantime.
C8_SingleFailoverInFlight ==
  [][\A i \in DOMAIN sup :
       /\ (ManualSelected(i) /\ Detects(i))
            => /\ Len(sup') = Len(sup)
               /\ sup'[i].child = sup[i].child
               /\ stateFile' = stateFile
               /\ ~Does(lastOps', "kill")
               /\ ~Does(lastOps', "sync")
               /\ ~Does(lastOps', "spawn")
       /\ (ManualSelected(i) /\ FailedOver(i) /\ ~ManualSelected(i)')
            => /\ Len(sup') = Len(sup)
               /\ stateFile' = stateFile
    ]_vars

\* C9: when the child of a running closure exits and no failover is in
\* flight, the process terminates with that child's exit code; when a killed
\* child exits, the process does not terminate.
C9_ExitCodeGoverns ==
  [][\A i \in DOMAIN sup :
       /\ (sup[i].child = "running" /\ ~ManualSelected(i) /\ ChildExits(i))
            => /\ proc' = "exited"
               /\ Does(lastOps', ExitTag(exitCode'))
       /\ (sup[i].child = "killed" /\ ChildExits(i))
            => proc' = "running"
    ]_vars

\* C10: when detection finds no replacement (none, or an account marked
\* rate-limited), the current child is not killed, no closure is launched,
\* and a later exit of that child terminates the process with its exit code.
C10_NoReplacementStaysRunning ==
  [][\A i \in DOMAIN sup :
       /\ (/\ sup[i].child = "running"
           /\ sup[i].autoSwitch
           /\ Detects(i)
           /\ noReplacement(Replacement(i)))
            => /\ sup'[i].child = "running"
               /\ Len(sup') = Len(sup)
               /\ proc' = "running"
       /\ (/\ sup[i].child = "running"
           /\ sup[i].rateLimitDetected
           /\ noReplacement(Replacement(i))
           /\ ~ManualSelected(i)
           /\ ChildExits(i))
            => /\ proc' = "exited"
               /\ Does(lastOps', ExitTag(exitCode'))
    ]_vars

\* C11: when the sync job fails during a failover, automatic or manual, the
\* failover is not aborted: the replacement closure is still launched on the
\* target account and the process goes on.
C11_FailedSyncStillRelaunches ==
  [][\A i \in DOMAIN sup :
       (Does(lastOps', "sync-failed") /\ sup'[i] # sup[i])
         => /\ Len(sup') = Len(sup) + 1
            /\ sup'[Len(sup')].parent = i
            /\ sup'[Len(sup')].accountName =
                 IF Does(lastOps', "rate-limit")
                   THEN Replacement(i).accountName
                   ELSE sup[i].selectedAccount
            /\ sup'[Len(sup')].child = "running"
            /\ proc' = "running"
    ]_vars

\* the account and arguments the launch of this step was called with
LaunchAccounts ==
  IF Does(lastOps', "rate-limit")
    THEN {Replacement(i).accountName : i \in {k \in DOMAIN sup : sup'[k] # sup[k]}}
  ELSE IF Does(lastOps', "timer")
    THEN {sup[i].selectedAccount : i \in {k \in DOMAIN sup : sup'[k] # sup[k]}}
  ELSE IF args.account = NoAccount THEN {selection'.accountName}
  ELSE {args.account}

LaunchArgs ==
  IF Does(lastOps', "rate-limit")
    THEN {resumeArgsRateLimit(sup[i].claudeArgs, sessionId) :
            i \in {k \in DOMAIN sup : sup'[k] # sup[k]},
            sessionId \in {NoSession, Sid}}
  ELSE IF Does(lastOps', "timer")
    THEN {resumeArgsManual(sup[i].claudeArgs, sessionId) :
            i \in {k \in DOMAIN sup : sup'[k] # sup[k]},
            sessionId \in {NoSession, Sid}}
  ELSE {args.claudeArgs}

\* a passthrough child (launchClaudeFallback) is running
Passthrough ==
  \E j \in DOMAIN sup : sup[j].mode = "fallback" /\ sup[j].child = "running"

\* the step in which pty.spawn fails: no exit is delivered, the process goes
\* on, and the passthrough child runs the account and arguments of the launch
SpawnFailureFallsBack ==
  Does(lastOps', "spawn-failed")
    => /\ proc' = "running"
       /\ exitCode' = exitCode
       /\ ~Does(lastOps', "process.exit")
       /\ Len(sup') = Len(sup) + 1
       /\ sup'[Len(sup')].mode = "fallback"
       /\ sup'[Len(sup')].child = "running"
       /\ ~sup'[Len(sup')].ptyProcess
       /\ sup'[Len(sup')].accountName \in LaunchAccounts
       /\ sup'[Len(sup')].claudeArgs \in LaunchArgs
       /\ Does(lastOps', "fallback")

\* C12: when the pseudo-terminal cannot be spawned the controller falls back
\* to a passthrough child for the same account and arguments without ending
\* the process, and while the process is in passthrough mode no rate-limit
\* detection happens and no account switch (kill or launch) is made.
C12_PassthroughNeverSwitches ==
  [][/\ SpawnFailureFallsBack
     /\ Passthrough
          => /\ ~Does(lastOps', "rate-limit")
             /\ ~Does(lastOps', "kill")
             /\ Len(sup') = Len(sup)
    ]_vars

\* closure i is the running Supervisor: its PTY child has not been killed
\* and has not exited
RunningSupervisor(i) == sup[i].mode = "pty" /\ sup[i].child = "running"

\* C13: whatever failovers have happened, while a Supervisor runs the terminal
\* has exactly one stdin data listener, that Supervisor's, and is in raw mode
\* with stdin flowing; nothing done for a killed Supervisor changes that.
C13_OneListenerRawWhileRunning ==
  \A i \in DOMAIN sup :
    (proc = "running" /\ RunningSupervisor(i))
      => /\ term.listeners = <<i>>
         /\ term.rawMode
         /\ term.flowing

\* kill has been called on closure i and its child's exit is still to come
Killed(i) == sup[i].mode = "pty" /\ sup[i].child = "killed"

\* C14: kill is idempotent: on a Supervisor that has been killed, a further
\* kill sends no signal and leaves raw mode, stdin flow and the stdin and
\* resize listeners as they are, also when a newer Supervisor has attached.
C14_KillIdempotent ==
  \A i \in DOMAIN sup :
    Killed(i) => /\ killWrapper(sup[i]) = sup[i]
                 /\ killTerminal(term, i) = term

\* the registry file holds an entry of process pid
HasEntry(state, pid) ==
  \E k \in DOMAIN state.activeSessions : state.activeSessions[k].pid = pid

\* C16: a process that registered a session unregisters on every way out
\* (exit of the supervised child with no failover pending, SIGINT, SIGTERM):
\* once it has ended, with no other writer, the registry file holds no entry
\* of its process id.
C16_UnregisteredOnceEnded ==
  (proc = "exited" /\ sup # <<>>) => ~HasEntry(stateFile, MyPid)

C16_Witness ==
  /\ proc = "exited"
  /\ sup # <<>>
  /\ Does(lastOps, "signal")
  /\ ~HasEntry(stateFile, MyPid)
  /\ HasEntry(stateFile, OtherPid)
  /\ stateFile.lastUsedAccount = sup[Len(sup)].accountName

(***************************************************************************)
(* Claims about the session registry, over SpecRegistry.                   *)
(***************************************************************************)
\* C15: whatever way register and unregister operations of any processes
\* interleave, starting from an empty registry, the saved registry never
\* holds two activeSessions entries with the same process id.
C15_OneEntryPerPid ==
  HasSessions(loadState)
    => \A j, k \in DOMAIN loadState.activeSessions :
         loadState.activeSessions[j].pid = loadState.activeSessions[k].pid => j = k

\* two processes are registered and one of them is re-registering on a state
\* it read before the other's write
C15_Witness ==
  /\ HasSessions(stateFile)
  /\ Len(stateFile.activeSessions) = 2
  /\ \E pid \in RegPids :
       /\ reg[pid].pc = "write"
       /\ HasEntry(stateFile, pid)
       /\ Len(reg[pid].next.activeSessions) = 1

\* the entries the registry held before process pid's register, as the
\* round trip leaves them: those of dead processes and of pid itself removed
RoundTripLeaves(pid) ==
  SelectSeq(reg[pid].pre, LAMBDA s : s.pid \in reg[pid].preLive /\ s.pid # pid)

C18_CleanStaleIdempotent ==
  HasSessions(loadState)
    => cleanStaleSessions(cleanStaleSessions(loadState))
         = cleanStaleSessions(loadState)

\* a register in progress has cleaned the registry the file still holds, and
\* that registry has a dead process's entry
C18_Witness ==
  \E pid \in RegPids :
    /\ reg[pid].trip = "registering"
    /\ HasSessions(stateFile)
    /\ stateFile.activeSessions = reg[pid].pre
    /\ alive = reg[pid].preLive
    /\ \E k \in DOMAIN reg[pid].pre : reg[pid].pre[k].pid \notin alive
    /\ cleanStaleSessions(stateFile) # stateFile
    /\ withoutPid(reg[pid].next.activeSessions, pid)
         = withoutPid(cleanStaleSessions(stateFile).activeSessions, pid)

\* positions of the entries of live processes
LivePositions(sessions) ==
  {k \in DOMAIN sessions : isProcessRunning(sessions[k].pid)}

\* C19: cleanStaleSessions removes exactly the entries of processes that are
\* not alive: the entries of live processes are all kept, in their order and
\* with their fields, and lastUsedAccount and lastUsedAt are unchanged.
C19_CleanStaleRemovesExactlyDead ==
  HasSessions(loadState)
    => LET before == loadState.activeSessions
           after == cleanStaleSessions(loadState)
           live == {k \in DOMAIN before : before[k].pid \in alive}
       IN  /\ after.lastUsedAccount = loadState.lastUsedAccount
           /\ after.lastUsedAt = loadState.lastUsedAt
           /\ Len(after.activeSessions) = Cardinality(live)
           /\ \A k \in live :
                after.activeSessions[Cardinality({j \in live : j <= k})] = before[k]

\* a register in progress has read a registry that holds a dead process's
\* entry and, after it, a live one's
C19_Witness ==
  /\ HasSessions(stateFile)
  /\ Len(stateFile.activeSessions) = 2
  /\ LivePositions(stateFile.activeSessions) = {2}
  /\ cleanStaleSessions(stateFile).activeSessions = <<stateFile.activeSessions[2]>>
  /\ stateFile.lastUsedAccount # NoLastUsed
  /\ \E pid \in RegPids :
       reg[pid].pc = "write" /\ reg[pid].pre = stateFile.activeSessions

\* C20: register, unregister and selectBestAccount never fail because of the
\* registry file: a missing, unreadable or unparseable file, or one that
\* parses but lacks the expected fields, is treated as the empty default
\* state, and a failed write is ignored.
C20_RegistryFileNeverFails ==
  \A pid \in RegPids : ~reg[pid].threw

\* C21: hub does not switch accounts by itself in mid-session: a closure that
\* replaces another one on a different account was launched by the manual
\* F10 switch, never by a rate-limit detection.
C21_AccountChangesOnlyManually ==
  \A j \in DOMAIN sup :
    (sup[j].parent # 0 /\ sup[j].accountName # sup[sup[j].parent].accountName)
      => sup[j].cause = "manual"

\* C23: in a failover step, rate-limit-triggered or manual, the conversation
\* identifier is located before the sync job is invoked.
C23_SessionLocatedBeforeSync ==
  [][(Does(lastOps', "findSession") /\ Does(lastOps', "sync"))
       => Before(lastOps', "findSession", "sync")]_vars

\* C25: in a failover step the sync job is invoked (whether it returns or
\* throws) before the current Supervisor is killed, and the replacement is
\* launched only after both.
C25_SyncThenKillThenLaunch ==
  [][(Does(lastOps', "kill")
        /\ (Does(lastOps', "sync") \/ Does(lastOps', "sync-failed")))
       => /\ \/ Before(lastOps', "sync", "kill")
             \/ Before(lastOps', "sync-failed", "kill")
          /\ Does(lastOps', "register")
               => /\ Before(lastOps', "sync", "register")
                  /\ Before(lastOps', "kill", "register")]_vars

(***************************************************************************)
(* SpecArgs: the hub process of Spec, started with the argument lists a     *)
(* user may pass through to claude.                                         *)
(***************************************************************************)
\* argument lists with and without '--resume': '-c', the name of an older
\* conversation, and a one-letter prompt that is part of that name
ArgLists ==
  LET DashC == <<"-", "c">>
      OldSid == <<"s", "0">>
      PromptS == <<"s">>
  IN  {<<>>, <<DashC>>, <<ResumeFlag>>, <<ResumeFlag, OldSid>>,
       <<ResumeFlag, OldSid, DashC>>, <<DashC, ResumeFlag, OldSid>>,
       <<ResumeFlag, OldSid, PromptS>>, <<DashC, PromptS>>}

InitArgs ==
  /\ usages = <<Usage(ConfigOrder[1], ShapeP), Usage(ConfigOrder[2], ShapeP),
                Usage(ConfigOrder[3], ShapeQ)>>
  /\ excludeAccount = NoAccount
  /\ selection = NotCalled
  /\ stateFile \in CtlRegistries
  /\ alive = {MyPid, OtherPid}
  /\ now = FetchTime
  /\ args \in {[account |-> NoAccount, claudeArgs |-> l] : l \in ArgLists}
  /\ proc = "init"
  /\ exitCode = NoCode
  /\ exitBy = 0
  /\ sup = <<>>
  /\ term = [rawMode |-> FALSE, flowing |-> FALSE, listeners |-> <<>>,
             resizers |-> <<>>, keys |-> 0]
  /\ lastOps = <<>>
  /\ reg = RegIdle
  /\ wrap = NoWrapper
  /\ AuxIdle

SpecArgs == InitArgs /\ [][Next]_vars

RECURSIVE withoutResume(_)
\* an argument list with every '--resume' token and the value that follows
\* it removed, the other arguments kept in order
withoutResume(l) ==
  IF l = <<>> THEN <<>>
  ELSE IF Head(l) = ResumeFlag
    THEN IF Len(l) = 1 THEN <<>> ELSE withoutResume(Tail(Tail(l)))
    ELSE <<Head(l)>> \o withoutResume(Tail(l))

\* C24: the argument list of a replacement closure is the previous list when
\* no conversation was found and otherwise ['--resume', id] followed by the
\* previous list without every prior '--resume' token and its value, in the
\* rate-limit path and in the manual path.
C24_ResumeArgsReplacePriorResume ==
  \A j \in DOMAIN sup :
    sup[j].parent # 0
      => sup[j].claudeArgs \in
           {sup[sup[j].parent].claudeArgs,
            <<ResumeFlag, Sid>> \o withoutResume(sup[sup[j].parent].claudeArgs)}

\* the same for the manual path alone
C24_ManualPathOnly ==
  \A j \in DOMAIN sup :
    (sup[j].parent # 0 /\ sup[j].cause = "manual")
      => sup[j].claudeArgs \in
           {sup[sup[j].parent].claudeArgs,
            <<ResumeFlag, Sid>> \o withoutResume(sup[sup[j].parent].claudeArgs)}

\* C22: a hub process has at most one live supervised child: at most one
\* closure's child is running, and a closure is launched as the replacement
\* of another one only when that one has been killed and has no replacement
\* yet.
C22_OneLiveChild ==
  [][/\ Cardinality({i \in DOMAIN sup' : sup'[i].child = "running"}) <= 1
     /\ (Len(sup') > Len(sup) /\ sup'[Len(sup')].parent # 0)
          => /\ sup'[sup'[Len(sup')].parent].child # "running"
             /\ \A j \in DOMAIN sup : sup[j].parent # sup'[Len(sup')].parent
    ]_vars

\* the entries of the persisted registry that belong to this process
OwnEntries ==
  IF IsFault(stateFile) THEN <<>>
  ELSE SelectSeq(stateFile.activeSessions, LAMBDA s : s.pid = MyPid)

\* C30: while the process runs, after every launch and every failover the
\* persisted registry holds exactly one entry for this process id, the entry
\* names the account of the Running Supervisor, and lastUsedAccount is that
\* account.
C30_RegistryNamesRunningAccount ==
  \A i \in DOMAIN sup :
    (proc = "running" /\ RunningSupervisor(i))
      => /\ Len(OwnEntries) = 1
         /\ OwnEntries[1].account = sup[i].accountName
         /\ stateFile.lastUsedAccount = sup[i].accountName

\* the same for a step that launches a closure and for that closure
C30_RegistryNamesLaunchedAccount ==
  [][Len(sup') > Len(sup)
       => /\ Len(OwnEntries') = 1
          /\ OwnEntries'[1].account = sup'[Len(sup')].accountName
          /\ stateFile'.lastUsedAccount = sup'[Len(sup')].accountName]_vars

(***************************************************************************)
(* SpecOutput: the hub process of Spec, its children writing output in      *)
(* chunks of any length, with the marker whole, split, and followed by more *)
(* text in the same chunk.                                                  *)
(***************************************************************************)
\* chunks a child may write: the marker whole, cut in two after its first
\* ten characters, other text, and the marker or its second part followed
\* in the same chunk by other output that fills the buffer
StreamChunks ==
  LET Filler(n) == [k \in 1..n |-> "."]
      markerHead == SubSeq(RATE_LIMIT_TRIGGER, 1, 10)
      markerTail == SubSeq(RATE_LIMIT_TRIGGER, 11, Len(RATE_LIMIT_TRIGGER))
  IN  {RATE_LIMIT_TRIGGER, markerHead, markerTail, OtherText,
       RATE_LIMIT_TRIGGER \o Filler(OUTPUT_BUFFER_CHARS),
       markerTail \o Filler(OUTPUT_BUFFER_CHARS - Len(markerTail))}

\* hub --account r with p and q usable
InitOutput ==
  /\ usages = <<Usage(ConfigOrder[1], ShapeP), Usage(ConfigOrder[2], ShapeP),
                Usage(ConfigOrder[3], ShapeQ)>>
  /\ excludeAccount = NoAccount
  /\ selection = NotCalled
  /\ stateFile \in CtlRegistries
  /\ alive = {MyPid, OtherPid}
  /\ now = FetchTime
  /\ args = [account |-> "r", claudeArgs |-> UserArgs]
  /\ proc = "init"
  /\ exitCode = NoCode
  /\ exitBy = 0
  /\ sup = <<>>
  /\ term = [rawMode |-> FALSE, flowing |-> FALSE, listeners |-> <<>>,
             resizers |-> <<>>, keys |-> 0]
  /\ lastOps = <<>>
  /\ reg = RegIdle
  /\ wrap = NoWrapper
  /\ AuxIdle

NextOutput ==
  \/ \E spawnOk \in BOOLEAN : Main(spawnOk)
  \/ \E i \in DOMAIN sup, data \in StreamChunks : OnData(i, data)
  \/ \E i \in DOMAIN sup, code \in ExitCodes : OnExit(i, code)
  \/ \E key \in Keys : OnStdin(key)
  \/ \E i \in DOMAIN sup : OnUsageFetched(i)
  \/ \E i \in DOMAIN sup, syncOk \in BOOLEAN, spawnOk \in BOOLEAN :
       OnSwitchTimer(i, syncOk, spawnOk)
  \/ \E sig \in Signals : OnSignal(sig)

SpecOutput == InitOutput /\ [][NextOutput]_vars

\* C28: when a chunk completes the marker in the output stream of a closure
\* (the buffer holds the end of the stream before the chunk), the wrapper
\* has emitted the rate-limit event once the chunk is processed, whatever
\* the chunk's length and whether or not output relay is paused.
C28_MarkerDetectedWithinChunk ==
  [][\A i \in DOMAIN sup : \A data \in StreamChunks :
       (/\ sup'[i].chunks = sup[i].chunks + 1
        /\ sup'[i].outputBuffer = appendOutput(sup[i].outputBuffer, data)
        /\ includes(sup[i].outputBuffer \o data, RATE_LIMIT_TRIGGER))
         => sup'[i].rateLimitDetected]_vars

(***************************************************************************)
(* SpecInput: the stdin side of one PTY wrapper (createPtyWrapper) with the *)
(* F9 and F10 overlays of launchClaudeWithPty.  Input arrives in chunks of  *)
(* bytes; "ESC" stands for the byte 0x1b.                                   *)
(***************************************************************************)
F9_SEQ == <<"ESC", "[", "2", "0", "~">>
F10_SEQ == <<"ESC", "[", "2", "1", "~">>

\* mutant of replaceFirst: nothing removed
replaceFirst_keeps(buf, needle) == buf

\* String.prototype.replace(needle, ''): the first occurrence removed
replaceFirst(buf, needle) ==
  LET at == {k \in 0..(Len(buf) - Len(needle)) :
               \A j \in 1..Len(needle) : buf[k + j] = needle[j]}
      k0 == CHOOSE k \in at : \A m \in at : k <= m
  IN  IF at = {} THEN buf
      ELSE SubSeq(buf, 1, k0) \o SubSeq(buf, k0 + Len(needle) + 1, Len(buf))

\* chunks the terminal may deliver: a letter, a digit, a lone Esc, cursor
\* up, F9, F10, F10 in two reads, and F10 with the next key in the same read
InputChunks ==
  {<<"a">>, <<"1">>, <<"ESC">>, <<"ESC", "[", "A">>, F9_SEQ, F10_SEQ,
   <<"ESC", "[", "2">>, <<"1", "~">>, F10_SEQ \o <<"1">>}

\* the wrapper after createPtyWrapper: child spawned, stdinHandler attached
NewWrapper ==
  [inputBuffer |-> <<>>,
   isProcessingFunctionKey |-> FALSE,
   commandInputHandler |-> "none",   \* "none" | "anyKey" | "selection"
   outputPaused |-> FALSE,
   ptyProcess |-> TRUE,
   listening |-> TRUE,               \* stdinHandler is a 'data' listener
   timers |-> 0,                     \* pending 50 ms flush timeouts
   command |-> "none",               \* "none" | "hub" | "switch"
   stage |-> "none",                 \* "none" | "fetching" | "waiting" | "selected"
   data |-> <<>>,                    \* argument of the last stdin event
   written |-> <<>>,                 \* bytes passed to ptyProcess.write
   events |-> 0]

\* mutant of commandDone: isProcessingFunctionKey is left set
commandDone_staysBusy(w) == [w EXCEPT !.command = "none", !.stage = "none"]

\* the command has returned: executeCommand resolves and the finally block
\* of stdinHandler runs
commandDone(w) ==
  [w EXCEPT !.isProcessingFunctionKey = FALSE, !.command = "none", !.stage = "none"]

\* the handler installed by waitForAnyKey (F9) or waitForSelection (F10,
\* two accounts on offer) on one chunk; the command's finally block and
\* return follow in the same turn once the promise is resolved
commandInput(w, data) ==
  LET decisive == {k \in DOMAIN data : data[k] \in {"ESC", "1", "2"}}
      first == CHOOSE k \in decisive : \A m \in decisive : k <= m
      resumed == [w EXCEPT !.commandInputHandler = "none", !.outputPaused = FALSE]
  IN  IF w.commandInputHandler = "anyKey" THEN commandDone(resumed)
      ELSE IF decisive = {} THEN w
      ELSE IF data[first] = "ESC" THEN commandDone(resumed)
      ELSE [resumed EXCEPT !.stage = "selected"]

\* stdinHandler on one chunk, up to its first await
stdinHandlerData(w, data) ==
  LET buf == w.inputBuffer \o data
      flushed(rest) ==
        IF Len(rest) > 0 /\ w.ptyProcess
          THEN [w EXCEPT !.written = @ \o rest, !.inputBuffer = <<>>]
          ELSE [w EXCEPT !.inputBuffer = rest]
      \* onF9 / onF10: executeCommand, the handler pauses output and awaits
      \* getAllAPIUsage
      entered(rest, cmd) ==
        [flushed(rest) EXCEPT !.isProcessingFunctionKey = TRUE,
                              !.outputPaused = TRUE,
                              !.command = cmd,
                              !.stage = "fetching"]
  IN  IF w.isProcessingFunctionKey
        THEN IF w.commandInputHandler # "none" THEN commandInput(w, data) ELSE w
      ELSE IF includes(buf, F9_SEQ) THEN entered(replaceFirst(buf, F9_SEQ), "hub")
      ELSE IF includes(buf, F10_SEQ) THEN entered(replaceFirst(buf, F10_SEQ), "switch")
      ELSE IF Len(buf) > 0 /\ buf[1] = "ESC" /\ Len(buf) < 5
        THEN [w EXCEPT !.inputBuffer = buf, !.timers = @ + 1]
      ELSE flushed(buf)

InitInput ==
  /\ usages = <<>>
  /\ excludeAccount = NoAccount
  /\ selection = NotCalled
  /\ stateFile = DefaultState
  /\ alive = {MyPid}
  /\ now = FetchTime
  /\ CtlIdle
  /\ reg = RegIdle
  /\ wrap = NewWrapper
  /\ AuxIdle

\* process.stdin 'data'
OnStdinData(data) ==
  /\ wrap.listening
  /\ wrap.events < MaxEvents
  /\ wrap' = [stdinHandlerData(wrap, data) EXCEPT !.data = data, !.events = @ + 1]
  /\ UNCHANGED <<selVars, envVars, args, proc, exitCode, exitBy, sup, term, lastOps, reg, auxVars>>

\* a flush timeout of stdinHandler fires
OnFlushTimer ==
  /\ wrap.timers > 0
  /\ wrap' = IF Len(wrap.inputBuffer) > 0 /\ wrap.ptyProcess
               THEN [wrap EXCEPT !.timers = @ - 1, !.written = @ \o wrap.inputBuffer,
                                 !.inputBuffer = <<>>]
               ELSE [wrap EXCEPT !.timers = @ - 1]
  /\ UNCHANGED <<selVars, envVars, args, proc, exitCode, exitBy, sup, term, lastOps, reg, auxVars>>

\* getAllAPIUsage of the running command resolves (ok) or rejects: the
\* display is rendered and the input handler installed, or the finally
\* block resumes output and executeCommand catches the error
OnOverlayFetched(ok) ==
  /\ wrap.stage = "fetching"
  /\ wrap' = IF ok
               THEN [wrap EXCEPT !.stage = "waiting",
                                 !.commandInputHandler =
                                    IF wrap.command = "hub" THEN "anyKey" ELSE "selection"]
               ELSE commandDone([wrap EXCEPT !.outputPaused = FALSE])
  /\ UNCHANGED <<selVars, envVars, args, proc, exitCode, exitBy, sup, term, lastOps, reg, auxVars>>

\* the 50 ms timer of switchHandler fires: switchAccount kills this wrapper
\* (the replacement is another wrapper) and the command returns
OnOverlayTimer ==
  /\ wrap.stage = "selected"
  /\ wrap' = commandDone([wrap EXCEPT !.ptyProcess = FALSE, !.listening = FALSE])
  /\ UNCHANGED <<selVars, envVars, args, proc, exitCode, exitBy, sup, term, lastOps, reg, auxVars>>

\* ptyProcess.onExit while the exit is suppressed by a failover flag: the
\* wrapper stays attached to stdin without a child
OnChildExit ==
  /\ wrap.ptyProcess
  /\ wrap' = [wrap EXCEPT !.ptyProcess = FALSE]
  /\ UNCHANGED <<selVars, envVars, args, proc, exitCode, exitBy, sup, term, lastOps, reg, auxVars>>

NextInput ==
  \/ \E data \in InputChunks : OnStdinData(data)
  \/ OnFlushTimer
  \/ \E ok \in BOOLEAN : OnOverlayFetched(ok)
  \/ OnOverlayTimer
  \/ OnChildExit

SpecInput == InitInput /\ [][NextInput]_vars

\* a timeout that has been set fires
SpecInputFair == SpecInput /\ WF_vars(OnFlushTimer)

\* this step is a stdin 'data' event
StdinStep == wrap'.events = wrap.events + 1

\* this step recognizes a reserved sequence and starts its command
Recognizes == ~wrap.isProcessingFunctionKey /\ wrap'.isProcessingFunctionKey

\* the bytes not yet written to the child when this step's chunk has arrived
Pending == wrap.inputBuffer \o wrap'.data

ReservedSeqs == {F9_SEQ, F10_SEQ}

\* buf with one occurrence of seq taken out
WithoutOne(buf, seq) ==
  {SubSeq(buf, 1, k) \o SubSeq(buf, k + Len(seq) + 1, Len(buf)) :
     k \in {m \in 0..(Len(buf) - Len(seq)) : SubSeq(buf, m + 1, m + Len(seq)) = seq}}

\* buf is a proper prefix of a reserved sequence
ProperPrefix(buf) ==
  \E seq \in ReservedSeqs :
    Len(buf) > 0 /\ Len(buf) < Len(seq) /\ buf = SubSeq(seq, 1, Len(buf))

\* the steps of C26: with the child alive and no overlay active, a chunk that
\* completes no reserved sequence leaves written-then-buffered extended by
\* the chunk; one that completes a reserved sequence leaves it extended by
\* the chunk less that sequence; nothing already written is changed, and a
\* flush timeout writes the whole buffer
C26_Forwarding ==
  /\ \E tail \in {SubSeq(wrap'.written, Len(wrap.written) + 1, Len(wrap'.written))} :
       wrap'.written = wrap.written \o tail
  /\ (StdinStep /\ ~wrap.isProcessingFunctionKey /\ wrap.ptyProcess)
       => IF Recognizes
            THEN wrap'.written \o wrap'.inputBuffer \in
                   {wrap.written \o rest :
                      rest \in UNION {WithoutOne(Pending, seq) : seq \in ReservedSeqs}}
            ELSE wrap'.written \o wrap'.inputBuffer = wrap.written \o Pending
  /\ (wrap'.timers < wrap.timers /\ wrap.ptyProcess)
       => /\ wrap'.written = wrap.written \o wrap.inputBuffer
          /\ wrap'.inputBuffer = <<>>

\* C26: while the child is alive and no overlay is active, every input byte
\* that is not part of a recognized reserved sequence is written to the
\* child exactly once, in arrival order, and eventually: a partial escape
\* sequence held back is flushed when its timeout fires; the bytes of a
\* recognized reserved sequence are never written to the child.
C26_InputForwardedOnceInOrder ==
  /\ [][C26_Forwarding]_vars
  /\ (wrap.inputBuffer # <<>> /\ wrap.ptyProcess)
       ~> (wrap.inputBuffer = <<>> \/ ~wrap.ptyProcess)

\* a letter was forwarded at once, a lone Esc was held back and flushed by
\* its timeout, and F10 was then recognized and not written
C26_Witness ==
  /\ wrap.written = <<"a", "ESC">>
  /\ wrap.isProcessingFunctionKey
  /\ wrap.command = "switch"
  /\ wrap.timers = 0
  /\ wrap.ptyProcess

\* C29: a stdin event whose buffer neither contains a reserved sequence nor
\* is a proper prefix of one writes the buffer to the child within the
\* event; a buffer is held back for the timeout only if it is a proper
\* prefix of a reserved sequence.
C29_OnlyProperPrefixHeld ==
  [][(/\ StdinStep
      /\ ~wrap.isProcessingFunctionKey
      /\ wrap.ptyProcess
      /\ \A seq \in ReservedSeqs : ~includes(Pending, seq))
       => IF ProperPrefix(Pending)
            THEN wrap'.inputBuffer = Pending
            ELSE /\ wrap'.inputBuffer = <<>>
                 /\ wrap'.written = wrap.written \o Pending]_vars

\* the bytes of this step's buffer that precede its first reserved sequence
BeforeSeq ==
  LET at == {k \in 0..(Len(Pending) - Len(F9_SEQ)) :
               SubSeq(Pending, k + 1, k + Len(F9_SEQ)) \in ReservedSeqs}
  IN  SubSeq(Pending, 1, CHOOSE k \in at : \A m \in at : k <= m)

\* what C27 says of every step but the recognizing one: while a command
\* runs no byte is written to the child and the input buffer is untouched;
\* when the command ends, normally or by an exception, output is resumed
\* and stdin is forwarded again; output is paused only while a command runs
C27_DuringAndAfterCommand ==
  /\ wrap.isProcessingFunctionKey
       => /\ wrap'.written = wrap.written
          /\ wrap'.inputBuffer = wrap.inputBuffer
  /\ (wrap.command # "none" /\ wrap'.command = "none")
       => /\ ~wrap'.isProcessingFunctionKey
          /\ ~wrap'.outputPaused
          /\ wrap'.commandInputHandler = "none"
  /\ wrap'.outputPaused => wrap'.isProcessingFunctionKey

\* C27 as stated: from the recognition of a reserved sequence on, no stdin
\* byte is written to the child until the command's callback completes:
\* the recognizing event writes at most the bytes that came before the
\* sequence.
C27_NoWriteFromRecognition ==
  [][/\ C27_DuringAndAfterCommand
     /\ (Recognizes /\ wrap.ptyProcess)
          => wrap'.written = wrap.written \o BeforeSeq]_vars

\* C27, amended: the recognizing event forwards to the child the bytes
\* buffered with the sequence, those that followed it in the same chunk
\* included; from then until the callback completes no stdin byte is
\* written to the child.
C27_NoWriteAfterRecognizingEvent ==
  [][/\ C27_DuringAndAfterCommand
     /\ (Recognizes /\ wrap.ptyProcess)
          => /\ wrap'.written \in
                  {wrap.written \o rest :
                     rest \in UNION {WithoutOne(Pending, seq) : seq \in ReservedSeqs}}
             /\ wrap'.inputBuffer = <<>>]_vars

\* a reserved sequence was recognized (after the key 1, or with the key 1
\* following it in the same read, which went to the child), its command
\* ended, and the next key was forwarded to the child
C27_Witness ==
  /\ wrap.events = 3
  /\ wrap.written = <<"1", "a">>
  /\ ~wrap.isProcessingFunctionKey
  /\ ~wrap.outputPaused
  /\ wrap.ptyProcess

\* C31: every failover, automatic or manual, relaunches on an account other
\* than the account of the closure it replaces.
C31_FailoverChangesAccount ==
  \A j \in DOMAIN sup :
    sup[j].parent # 0 => sup[j].accountName # sup[sup[j].parent].accountName

\* one closure was replaced on a rate-limit detection and another, or the
\* same one, by a manual switch
C31_Witness ==
  /\ \E j \in DOMAIN sup : sup[j].cause = "ratelimit"
  /\ \E j \in DOMAIN sup : sup[j].cause = "manual"

\* the entries of process q in a list of sessions
EntriesOf(sessions, q) == SelectSeq(sessions, LAMBDA s : s.pid = q)

\* C32: register and unregister are unlocked read-modify-writes of the whole
\* file.  Each of them, taken alone, keeps what it read of other live
\* processes: the state it is about to write holds their entries unchanged.
\* A lost update therefore needs two processes, and it is reachable (the
\* witness): a live process that completed register and has not
\* unregistered has no entry in the persisted registry.
C32_OperationAloneKeepsOthers ==
  [][\A pid \in RegPids :
       (reg[pid].pc = "idle" /\ reg'[pid].pc = "write")
         => \A q \in alive \ {pid} :
              EntriesOf(reg'[pid].next.activeSessions, q)
                = EntriesOf(loadState.activeSessions, q)]_vars

\* the entry of a live, registered process was overwritten by another
\* process's write of a state read before that entry existed
C32_Witness ==
  \E q \in RegPids :
    /\ q \in alive
    /\ reg[q].pc = "idle"
    /\ reg[q].entered
    /\ reg[q].lost
    /\ HasSessions(loadState)
    /\ ~IsFault(stateFile)
    /\ EntriesOf(stateFile.activeSessions, q) = <<>>
    /\ stateFile.activeSessions # <<>>

\* C33: an entry of a dead process, one written back by a stale overwrite
\* after its owner unregistered and exited included, never causes an
\* active-session penalty: whenever selectBestAccount runs on a registry
\* that holds such an entry, the account it returns has the highest score
\* among the scores that take the penalty only for accounts named by an
\* entry of a live process; and the state a register
\* writes holds no entry of a process that was dead when the register read
\* the file.
C33_DeadEntriesNeverPenalize ==
  /\ (/\ HasSessions(loadState)
      /\ \E k \in DOMAIN loadState.activeSessions :
           loadState.activeSessions[k].pid \notin alive) =>
       LET best == selectBestAccount(usages, excludeAccount)
           heldByLive(a) ==
             \E k \in DOMAIN loadState.activeSessions :
               /\ loadState.activeSessions[k].account = a
               /\ loadState.activeSessions[k].pid \in alive
           score(u) ==
             calculateBaseScore(u) + calculateSessionResetBonus(u)
               + calculateWeeklyResetBonus(u)
               - (IF heldByLive(u.accountName)
                    THEN PENALTY_ACTIVE_SESSION * ScoreUnit ELSE 0)
               - (IF u.accountName = loadState.lastUsedAccount
                    THEN PENALTY_LAST_USED * ScoreUnit ELSE 0)
           scores == [i \in DOMAIN usages |-> score(usages[i])]
       IN  /\ ~IsNull(best)
           /\ ~best.isRateLimited
           /\ \E i \in DOMAIN usages :
                /\ usages[i].accountName = best.accountName
                /\ best.score = scores[i]
                /\ \A j \in DOMAIN usages : scores[j] <= best.score
  /\ \A pid \in RegPids :
       /\ reg[pid].trip = "registering"
            => \A k \in DOMAIN reg[pid].next.activeSessions :
                 reg[pid].next.activeSessions[k].pid \in reg[pid].preLive
       /\ reg[pid].trip = "registered"
            => \A k \in DOMAIN stateFile.activeSessions :
                 stateFile.activeSessions[k].pid \in reg[pid].preLive

\* a process unregistered and ended; the write of a register that had read
\* the file before put its entry back; a selection made since returned the
\* account that entry names, which no live process holds, with the score
\* that carries no active-session penalty
C33_Witness ==
  \E q \in RegPids \ alive :
    /\ reg[q].left
    /\ HasSessions(stateFile)
    /\ \E k \in DOMAIN stateFile.activeSessions :
         /\ stateFile.activeSessions[k].pid = q
         /\ WasCalled(selection)
         /\ selection = selectBestAccount(usages, excludeAccount)
         /\ selection.accountName = stateFile.activeSessions[k].account
         /\ \A j \in DOMAIN stateFile.activeSessions :
              stateFile.activeSessions[j].account = selection.accountName
                => stateFile.activeSessions[j].pid = q
         /\ \E i \in DOMAIN usages :
              /\ usages[i].accountName = selection.accountName
              /\ selection.score =
                   calculateBaseScore(usages[i]) + calculateSessionResetBonus(usages[i])
                     + calculateWeeklyResetBonus(usages[i])
                     - lastUsedPenalty(usages[i], stateFile)

\* C34: every operation that reads the registry discards the entries whose
\* process id is not alive before it uses or persists the state: the state
\* an operation is about to write, as it leaves the read, holds no entry of
\* a process that is not alive.
C34_NoDeadEntryWrittenBack ==
  [][\A pid \in RegPids :
       (reg[pid].pc = "idle" /\ reg'[pid].pc = "write")
         => \A k \in DOMAIN reg'[pid].next.activeSessions :
              reg'[pid].next.activeSessions[k].pid \in alive]_vars

(***************************************************************************)
(* SpecScore: selectBestAccount and getScoreBreakdown on the same          *)
(* snapshots and registry, over snapshots whose scores leave [0, 100],     *)
(* lie within a tenth of each other, and whose resets have passed or are   *)
(* beyond the bonus caps.                                                   *)
(***************************************************************************)
MaxScored == 2

\* both resets at or before the later clock: 100 base and the full bonuses
ShapeFull == OkShape(100, 100, FetchTime + H(0, 30), FetchTime + H(1, 0))
\* both resets at or beyond the caps at either clock: 0.6 base, no bonus
ShapeLow == OkShape(1, 0, FetchTime + H(25, 0), FetchTime + D(7, 1))
\* ShapeP with the session reset a minute later: 1/120 of a point less
ShapePLater == OkShape(88, 79, FetchTime + H(3, 21), FetchTime + D(6, 12))

ScoreShapes ==
  {ErrorShape(FetchTime), ShapeP, ShapePLater, ShapeFull, ShapeLow, ShapeExhaustedSoon}

\* registry files: no session, or one of a live or of a dead process on q;
\* q last used or nothing last used
ScoreRegistries ==
  {[lastUsedAccount |-> l,
    lastUsedAt |-> IF l = NoLastUsed THEN NoTime ELSE FetchTime,
    activeSessions |-> ss] :
     l \in {NoLastUsed, "q"},
     ss \in {<<>>} \cup {<<Session("q", pid, FetchTime)>> : pid \in {OtherPid, DeadPid}}}

ScoreUsageLists ==
  UNION {{[i \in DOMAIN names |-> Usage(names[i], shapes[i])] :
            shapes \in [DOMAIN names -> ScoreShapes]} :
         names \in {s \in NameLists : Len(s) <= MaxScored}}

\* Math.round(x * 10) / 10: to the nearest tenth, halves upwards
roundTenth(x) ==
  LET tenth == ScoreUnit \div 10
  IN  ((2 * x + tenth) \div (2 * tenth)) * tenth

\* mutant of getScoreBreakdown's sort: by the unrounded score
breakdownKey_unrounded(b) == 0 - b.exactScore

\* breakdowns.sort((a, b) => b.finalScore - a.finalScore)
breakdownKey(b) == 0 - b.finalScore

\* getScoreBreakdown without the two formatted reset texts; exactScore is the
\* local finalScore before it is rounded into the returned field
getScoreBreakdown(us) ==
  LET state == cleanStaleSessions(loadState)
      kept == SelectSeq(us, LAMBDA u : ~u.error)
      row(usage) ==
        LET isRateLimited == usage.fiveHourRemaining <= 0
            finalScore ==
              IF isRateLimited THEN 0
              ELSE calculateBaseScore(usage) + calculateSessionResetBonus(usage)
                     + calculateWeeklyResetBonus(usage)
                     - activePenalty(usage, state) - lastUsedPenalty(usage, state)
        IN  [accountName |-> usage.accountName,
             sessionRemaining |-> usage.fiveHourRemaining,
             weeklyRemaining |-> usage.sevenDayRemaining,
             baseScore |-> roundTenth(calculateBaseScore(usage)),
             sessionResetBonus |-> roundTenth(calculateSessionResetBonus(usage)),
             weeklyResetBonus |-> roundTenth(calculateWeeklyResetBonus(usage)),
             activeSessionPenalty |-> activePenalty(usage, state),
             lastUsedPenalty |-> lastUsedPenalty(usage, state),
             exactScore |-> finalScore,
             finalScore |-> roundTenth(finalScore),
             isRateLimited |-> isRateLimited,
             isBest |-> FALSE]
      rows == [i \in DOMAIN kept |-> row(kept[i])]
      keyed == [i \in DOMAIN rows |-> [key |-> breakdownKey(rows[i]), item |-> rows[i]]]
      sorted == SortStable(keyed)
  IN  [i \in DOMAIN sorted |->
         IF i = 1 /\ ~sorted[1].item.isRateLimited
           THEN [sorted[i].item EXCEPT !.isBest = TRUE]
           ELSE sorted[i].item]

InitScore ==
  /\ usages \in ScoreUsageLists
  /\ excludeAccount \in {NoAccount, "p"}
  /\ selection = NotCalled
  /\ stateFile \in ScoreRegistries
  /\ alive = {MyPid, OtherPid}
  /\ now \in SelClocks
  /\ CtlIdle
  /\ reg = RegIdle
  /\ wrap = NoWrapper
  /\ AuxIdle

CallGetScoreBreakdown ==
  /\ ~WasCalled(breakdown)
  /\ breakdown' = [rows |-> getScoreBreakdown(usages)]
  /\ UNCHANGED <<selVars, envVars, args, proc, exitCode, exitBy, sup, term, lastOps,
                 reg, wrap, cache, store, found>>

NextScore ==
  \/ CallSelectBestAccount
  \/ CallGetScoreBreakdown

SpecScore == InitScore /\ [][NextScore]_vars

(***************************************************************************)
(* Claims about the scores, over SpecScore.                                *)
(***************************************************************************)
\* what scoreAccounts gets from selectBestAccount: the available candidates
RankedCandidates ==
  scoreAccounts(available(SelectSeq(usages, LAMBDA u : IsCandidate(u, excludeAccount))),
                cleanStaleSessions(loadState), excludeAccount)

\* ten times the score the scoring rule gives snapshot u: the weights in
\* tenths, 15 off when an entry of a live process names the account, 5 off
\* when the account is lastUsedAccount, nothing clamped
TenTimesRuleScore(u) ==
  LET namedByLive ==
        \E k \in DOMAIN stateFile.activeSessions :
          /\ stateFile.activeSessions[k].account = u.accountName
          /\ stateFile.activeSessions[k].pid \in alive
  IN  ScoreUnit * (6 * u.fiveHourRemaining + 4 * u.sevenDayRemaining)
        + 10 * (calculateSessionResetBonus(u) + calculateWeeklyResetBonus(u))
        - 10 * ScoreUnit * ((IF namedByLive THEN 15 ELSE 0)
                            + (IF u.accountName = stateFile.lastUsedAccount THEN 5 ELSE 0))

\* C35: for every available candidate the score used for ranking is
\* baseScore + sessionBonus + windowBonus - 15 (exactly when an entry of a
\* live process names the account) - 5 (exactly when the account is
\* lastUsedAccount), with baseScore = 0.6 * session + 0.4 * window remaining
\* and no clamping; the returned score is that of the returned account.
C35_RankingScoreIsRuleScore ==
  LET ranked == RankedCandidates
  IN  /\ Len(ranked) = Cardinality({i \in DOMAIN usages : AvailableAt(i)})
      /\ \A k \in DOMAIN ranked :
           /\ AvailableAt(CHOOSE i \in DOMAIN usages : usages[i] = ranked[k].usage)
           /\ 10 * ranked[k].baseScore
                = ScoreUnit * (6 * ranked[k].usage.fiveHourRemaining
                               + 4 * ranked[k].usage.sevenDayRemaining)
           /\ 10 * ranked[k].adjustedScore = TenTimesRuleScore(ranked[k].usage)
      /\ (Called /\ ranked # <<>>)
           => \E k \in DOMAIN ranked :
                /\ selection.accountName = ranked[k].usage.accountName
                /\ 10 * selection.score = TenTimesRuleScore(ranked[k].usage)

\* a selection returned with a score above 100, ranked against a candidate
\* that carries both penalties and scores below 0
C35_Witness ==
  /\ Called
  /\ ~IsNull(selection)
  /\ selection.score > 100 * ScoreUnit
  /\ \E k \in DOMAIN RankedCandidates :
       /\ RankedCandidates[k].adjustedScore < 0
       /\ RankedCandidates[k].usage.accountName = stateFile.lastUsedAccount
       /\ \E j \in DOMAIN stateFile.activeSessions :
            /\ stateFile.activeSessions[j].account = RankedCandidates[k].usage.accountName
            /\ stateFile.activeSessions[j].pid \in alive

\* reset instants around the clock and around the two caps
ResetInstants ==
  {now - H(1, 0), now, now + 1, now + H(12, 0),
   now + H(24, 0) - 1, now + H(24, 0), now + H(24, 0) + 1,
   now + D(7, 0) - 1, now + D(7, 0), now + D(8, 0)}
    \cup {usages[i].fiveHourResetsAt : i \in DOMAIN usages}
    \cup {usages[i].sevenDayResetsAt : i \in DOMAIN usages}

\* C36: the session bonus and the window bonus are each non-increasing in
\* the time remaining until the reset; the session bonus lies in [0, 12] and
\* is 0 for a reset 24 hours or more away, the window bonus lies in
\* [0, 17.5] and is 0 for a reset 7 days or more away, and a reset instant
\* at or before now yields the maximum bonus; stated of the bonuses of the
\* instants around the caps and of the snapshots both calls have scored.
C36_BonusesBoundedAndMonotone ==
  (Called /\ WasCalled(breakdown)) =>
  LET instants == ResetInstants
      sessionBonus == [t \in instants |->
                         calculateSessionResetBonus([fiveHourResetsAt |-> t])]
      windowBonus == [t \in instants |->
                        calculateWeeklyResetBonus([sevenDayResetsAt |-> t])]
  IN  /\ \A t \in instants :
           /\ 0 <= sessionBonus[t] /\ sessionBonus[t] <= 12 * ScoreUnit
           /\ 0 <= windowBonus[t] /\ 2 * windowBonus[t] <= 35 * ScoreUnit
           /\ t - now >= H(24, 0) => sessionBonus[t] = 0
           /\ t - now >= D(7, 0) => windowBonus[t] = 0
           /\ t <= now => /\ sessionBonus[t] = 12 * ScoreUnit
                          /\ 2 * windowBonus[t] = 35 * ScoreUnit
      /\ \A t \in instants : \A t2 \in {x \in instants : x > t} :
           /\ sessionBonus[t] >= sessionBonus[t2]
           /\ windowBonus[t] >= windowBonus[t2]

\* both calls have scored a snapshot whose resets have passed or are due now
\* (both bonuses at their maximum) together with one whose resets are at or
\* beyond the caps (no bonus)
C36_Witness ==
  /\ Called
  /\ WasCalled(breakdown)
  /\ \E i, j \in DOMAIN usages :
       /\ AvailableAt(i) /\ AvailableAt(j)
       /\ usages[i].fiveHourResetsAt < now /\ usages[i].sevenDayResetsAt = now
       /\ usages[j].fiveHourResetsAt - now >= H(24, 0)
       /\ usages[j].sevenDayResetsAt - now >= D(7, 0)
       /\ selection.accountName = usages[i].accountName
       /\ selection.score - calculateBaseScore(usages[i]) = (12 * ScoreUnit) + (35 * ScoreUnit) \div 2
       /\ \E k \in DOMAIN breakdown.rows :
            /\ breakdown.rows[k].accountName = usages[j].accountName
            /\ breakdown.rows[k].sessionResetBonus = 0
            /\ breakdown.rows[k].weeklyResetBonus = 0

(***************************************************************************)
(* Claims about repeated failover, over Spec.                               *)
(***************************************************************************)
\* C37: each automatic failover marks the account it leaves as exhausted in
\* the usage snapshots handed on and the mark is never cleared: every closure
\* launched after the failover holds that account with no session capacity
\* left; so no automatic failover targets an account that an earlier
\* automatic failover left, and with no manual switch the accounts of the
\* closures are all different (at most N - 1 failovers with N accounts).
C37_MarkKeptNeverBack ==
  \A j, k \in DOMAIN sup :
    (j < k /\ sup[j].cause = "ratelimit")
      => LET left == sup[sup[j].parent].accountName
         IN  /\ \A n \in DOMAIN sup[k].usageData :
                  sup[k].usageData[n].accountName = left
                    => sup[k].usageData[n].fiveHourRemaining = 0
             /\ sup[k].cause = "ratelimit" => sup[k].accountName # left
             /\ (\A m \in DOMAIN sup : sup[m].cause # "manual")
                  => sup[k].accountName # sup[j].accountName

\* C38: for every snapshot list and registry state with at least one
\* non-errored account having session capacity left, the account that
\* getScoreBreakdown marks isBest is the account that selectBestAccount
\* returns for the same inputs without exclusion.
C38_BreakdownBestIsSelected ==
  (/\ excludeAccount = NoAccount
   /\ Called
   /\ WasCalled(breakdown)
   /\ \E i \in DOMAIN usages : ~usages[i].error /\ usages[i].fiveHourRemaining > 0)
    => \E k \in DOMAIN breakdown.rows :
         /\ breakdown.rows[k].isBest
         /\ breakdown.rows[k].accountName = selection.accountName

(***************************************************************************)
(* SpecCache: getAllAPIUsage and its module-level cache.  In this          *)
(* specification the clock and the reset instants are in seconds.          *)
(***************************************************************************)
USAGE_CACHE_SECONDS == 30

\* the time that passes between two events, a third of the cache interval,
\* and Date.now() when the process first asks for usage
CacheTick == USAGE_CACHE_SECONDS \div 3
CacheStart == 100 * CacheTick
CacheEnd == CacheStart + 5 * CacheTick

\* what getAPIUsage may return for one account at instant t: an error
\* result, or a snapshot whose session window, rolling window or neither
\* resets within the next CacheTick seconds
CacheShapes(t) ==
  {ErrorShape(t),
   OkShape(50, 50, t + CacheTick, t + 1000),
   OkShape(50, 50, t + 1000, t + CacheTick),
   OkShape(50, 50, t + 1000, t + 1000)}

\* Promise.all over Object.entries(accounts): one result per account, in
\* configuration order
FreshLists(t) ==
  {[i \in DOMAIN ConfigOrder |-> Usage(ConfigOrder[i], shapes[i])] :
     shapes \in [DOMAIN ConfigOrder -> CacheShapes(t)]}

\* mutant of hasStaleResetTime: the rolling window's reset tested as well
hasStaleResetTime_bothWindows(data) ==
  \E i \in DOMAIN data :
    /\ ~data[i].error
    /\ (data[i].fiveHourResetsAt < now \/ data[i].sevenDayResetsAt < now)

\* cachedUsageData.some(u => !u.error && u.fiveHourResetsAt.getTime() < now)
hasStaleResetTime(data) ==
  \E i \in DOMAIN data : ~data[i].error /\ data[i].fiveHourResetsAt < now

\* the cache-hit test of getAllAPIUsage
servedFromCache(c) ==
  /\ ~IsNull(c.data)
  /\ now - c.lastFetchTime < USAGE_CACHE_SECONDS
  /\ ~hasStaleResetTime(c.data.list)

InitCache ==
  /\ usages = <<>>
  /\ excludeAccount = NoAccount
  /\ selection = NotCalled
  /\ stateFile = DefaultState
  /\ alive = {MyPid}
  /\ now = CacheStart
  /\ CtlIdle
  /\ reg = RegIdle
  /\ wrap = NoWrapper
  /\ AuxIdle

\* one call of getAllAPIUsage, from its first line to the resolution of the
\* promise it returns; usages is the list the caller gets
GetAllAPIUsage ==
  /\ cache.calls < MaxEvents
  /\ IF servedFromCache(cache)
       THEN /\ usages' = cache.data.list
            /\ cache' = [cache EXCEPT !.calls = @ + 1]
       ELSE \E results \in FreshLists(now) :
              /\ usages' = results
              /\ cache' = [data |-> [list |-> results], lastFetchTime |-> now,
                           fetches |-> cache.fetches + 1,
                           calls |-> cache.calls + 1]
  /\ UNCHANGED <<excludeAccount, selection, envVars, args, proc, exitCode, exitBy,
                 sup, term, lastOps, reg, wrap, breakdown, store, found>>

\* clearUsageCache
ClearUsageCache ==
  /\ ~IsNull(cache.data)
  /\ cache' = [cache EXCEPT !.data = Null, !.lastFetchTime = 0]
  /\ UNCHANGED <<selVars, envVars, args, proc, exitCode, exitBy,
                 sup, term, lastOps, reg, wrap, breakdown, store, found>>

\* time passes
CacheClock ==
  /\ now < CacheEnd
  /\ now' = now + CacheTick
  /\ UNCHANGED <<selVars, stateFile, alive, ctlVars, reg>>

NextCache ==
  \/ GetAllAPIUsage
  \/ ClearUsageCache
  \/ CacheClock

SpecCache == InitCache /\ [][NextCache]_vars

\* C39: getAllAPIUsage returns the cached snapshots only when the cache is
\* younger than the cache interval and no non-errored cached snapshot has a
\* reset instant, of the session window or of the rolling window, that has
\* already passed; in every other case it fetches fresh snapshots and
\* replaces the cache.
C39_CacheServedOnlyWhenFreshAndCurrent ==
  [][cache'.calls # cache.calls =>
       LET young == ~IsNull(cache.data)
                      /\ now - cache.lastFetchTime < USAGE_CACHE_SECONDS
           passed == \E i \in DOMAIN cache.data.list :
                       /\ ~cache.data.list[i].error
                       /\ \/ cache.data.list[i].fiveHourResetsAt < now
                          \/ cache.data.list[i].sevenDayResetsAt < now
       IN  IF young /\ ~passed
             THEN /\ usages' = cache.data.list
                  /\ cache'.data = cache.data
                  /\ cache'.fetches = cache.fetches
             ELSE /\ cache'.fetches = cache.fetches + 1
                  /\ cache'.lastFetchTime = now
                  /\ cache'.data = [list |-> usages']
                  /\ usages' \in FreshLists(now)]_vars

(***************************************************************************)
(* SpecStore: findActiveSessionId over the conversation store of the       *)
(* current working directory.  A timestamp is the text of an ISO instant,  *)
(* here two digits; the code compares the texts as strings.                 *)
(***************************************************************************)
MaxFiles == 2

Digits == <<"0", "1", "2", "3", "4", "5", "6", "7", "8", "9">>

\* Date.prototype.toISOString at a fixed width: the text of instant n
Stamp(n) == <<Digits[(n \div 10) + 1], Digits[(n % 10) + 1]>>

\* the instant a timestamp text denotes
Instant(text) ==
  LET digit(c) == (CHOOSE d \in DOMAIN Digits : Digits[d] = c) - 1
  IN  10 * digit(text[1]) + digit(text[2])

\* a > b on strings: by code units from the left, a proper prefix is less
RECURSIVE stringGreater(_, _)
stringGreater(a, b) ==
  LET code(c) == CHOOSE d \in DOMAIN Digits : Digits[d] = c
  IN  IF a = <<>> THEN FALSE
      ELSE IF b = <<>> THEN TRUE
      ELSE IF Head(a) # Head(b) THEN code(Head(a)) > code(Head(b))
      ELSE stringGreater(Tail(a), Tail(b))

\* instants of the messages: either side of the change of the leading digit
StoreInstants == {9, 10}

\* a line that does not parse, an entry without timestamp, a message
StoreLines ==
  {[malformed |-> TRUE, timestamp |-> <<>>], [malformed |-> FALSE, timestamp |-> <<>>]}
    \cup {[malformed |-> FALSE, timestamp |-> Stamp(n)] : n \in StoreInstants}

\* the files are appended to: the timestamps of a file never go back
Chronological(lines) ==
  \A m, n \in DOMAIN lines :
    (m < n /\ lines[m].timestamp # <<>> /\ lines[n].timestamp # <<>>)
      => Instant(lines[m].timestamp) <= Instant(lines[n].timestamp)

\* a conversation file of up to two lines, one that cannot be read, or a
\* file of another kind that holds the latest instant
StoreFiles(name) ==
  {[name |-> name, jsonl |-> TRUE, readable |-> TRUE, lines |-> ls, mtime |-> 1] :
     ls \in {l \in UNION {[1..n -> StoreLines] : n \in 0..2} : Chronological(l)}}
    \cup {[name |-> name, jsonl |-> TRUE, readable |-> FALSE, lines |-> <<>>, mtime |-> 1],
          [name |-> name, jsonl |-> FALSE, readable |-> TRUE,
           lines |-> <<[malformed |-> FALSE, timestamp |-> Stamp(11)]>>, mtime |-> 1]}

\* the directories of up to max files in readdirSync order; file k is named
\* after session k
Stores(max) ==
  {NoStore} \cup
  UNION {{[files |-> [k \in 1..n |-> [pick[k] EXCEPT !.name = k]]] :
            pick \in [1..n -> StoreFiles(0)]} : n \in 0..max}

\* mutant of lastTimestamp: the first timestamped entry of the file
RECURSIVE lastTimestamp_first(_, _)
lastTimestamp_first(lines, i) ==
  IF lines = <<>> THEN <<>>
  ELSE IF ~Head(lines).malformed /\ Head(lines).timestamp # <<>>
    THEN Head(lines).timestamp
  ELSE lastTimestamp_first(Tail(lines), i)

\* the inner loop from line i down: the timestamp of the last entry that
\* parses and has one, the empty text if the loop ends without a break
RECURSIVE lastTimestamp(_, _)
lastTimestamp(lines, i) ==
  IF i < 1 THEN <<>>
  ELSE IF ~lines[i].malformed /\ lines[i].timestamp # <<>> THEN lines[i].timestamp
  ELSE lastTimestamp(lines, i - 1)

\* the outer loop from file k on, with latestTimestamp and latestSessionId
RECURSIVE scanFiles(_, _, _, _)
scanFiles(files, k, latestTimestamp, latestSessionId) ==
  IF k > Len(files) THEN latestSessionId
  ELSE LET stamp == IF files[k].readable
                      THEN lastTimestamp(files[k].lines, Len(files[k].lines))
                      ELSE <<>>
       IN  IF stamp # <<>> /\ stringGreater(stamp, latestTimestamp)
             THEN scanFiles(files, k + 1, stamp, [id |-> files[k].name])
             ELSE scanFiles(files, k + 1, latestTimestamp, latestSessionId)

findActiveSessionId(st) ==
  IF "missing" \in DOMAIN st THEN Null
  ELSE LET files == SelectSeq(st.files, LAMBDA f : f.jsonl)
       IN  IF Len(files) = 0 THEN Null
           ELSE scanFiles(files, 1, <<>>, Null)

InitStore ==
  /\ usages = <<>>
  /\ excludeAccount = NoAccount
  /\ selection = NotCalled
  /\ stateFile = DefaultState
  /\ alive = {MyPid}
  /\ now = FetchTime
  /\ CtlIdle
  /\ reg = RegIdle
  /\ wrap = NoWrapper
  /\ breakdown = NotCalled
  /\ cache = NoCache
  /\ store \in Stores(MaxFiles)
  /\ found = NotCalled

CallFindActiveSessionId ==
  /\ ~WasCalled(found)
  /\ found' = findActiveSessionId(store)
  /\ UNCHANGED <<selVars, envVars, args, proc, exitCode, exitBy, sup, term, lastOps,
                 reg, wrap, breakdown, cache, store>>

\* the sync job or the editor touches file k: only its mtime changes
TouchFile(k) ==
  /\ "files" \in DOMAIN store
  /\ k \in DOMAIN store.files
  /\ store.files[k].mtime < 2
  /\ store' = [store EXCEPT !.files[k].mtime = @ + 1]
  /\ UNCHANGED <<selVars, envVars, args, proc, exitCode, exitBy, sup, term, lastOps,
                 reg, wrap, breakdown, cache, found>>

NextStore ==
  \/ CallFindActiveSessionId
  \/ \E k \in 1..MaxFiles : TouchFile(k)

SpecStore == InitStore /\ [][NextStore]_vars

====
